---- MODULE Spec2Model ----
(***************************************************************************)
(* Ingestion pipeline of the Chat4BA engine: upload endpoint, background   *)
(* ingestion task (load, chunk, embed, set up collection, upsert), the     *)
(* vector-store client functions and the older store_texts_in_qdrant       *)
(* pipeline, over an abstract Qdrant store.                                *)
(*                                                                         *)
(* Strings are sequences of one-character strings, so that splitext,      *)
(* lower, isalnum and strip are computed as the code computes them.        *)
(***************************************************************************)
EXTENDS Integers, Sequences, FiniteSets, TLC

(***************************************************************************)
(* Bounds of the model.                                                    *)
(***************************************************************************)
MaxUploads == 2
MaxCalls == 2
MaxQueries == 1

(***************************************************************************)
(* Program constants.                                                      *)
(***************************************************************************)
EXPECTED_VECTOR_SIZE == 3072
UPSERT_VECTOR_SIZE == 3072
VECTORIZER_VECTOR_SIZE == 3072
THREAD_VECTOR_SIZE == 1536
MAX_TEXT_LEN == 4000

\* "chat4ba_threads"
THREAD_COLLECTION ==
    <<"c","h","a","t","4","b","a","_","t","h","r","e","a","d","s">>

(***************************************************************************)
(* Characters and the str methods the pipeline uses.                       *)
(***************************************************************************)
LowerLetters == {"a","b","c","d","e","f","h","i","l","p","r","s","t","v","x"}
UpperLetters == {"A","C","S","V"}
Digits == {"1","4"}
Whitespace == {" "}

\* str.lower() on one character
LowerChar(c) ==
    CASE c = "A" -> "a"
      [] c = "C" -> "c"
      [] c = "S" -> "s"
      [] c = "V" -> "v"
      [] OTHER -> c

\* str.isalnum() on one character
IsAlnum(c) == c \in LowerLetters \cup UpperLetters \cup Digits

\* str.lower()
Lower(s) == [i \in 1..Len(s) |-> LowerChar(s[i])]

\* str.strip(ch): drop the leading and trailing run of characters in chs
StripChars(s, chs) ==
    LET keep == {i \in 1..Len(s) : s[i] \notin chs}
    IN  IF keep = {} THEN <<>>
        ELSE LET lo == CHOOSE i \in keep : \A j \in keep : i <= j
                 hi == CHOOSE i \in keep : \A j \in keep : i >= j
             IN  SubSeq(s, lo, hi)

\* os.path.splitext: the extension starts at the last dot that has a
\* non-dot character somewhere before it; otherwise there is no extension.
SplitExtIndex(p) ==
    LET dots == {i \in 1..Len(p) : p[i] = "."}
    IN  IF dots = {} THEN 0
        ELSE LET d == CHOOSE i \in dots : \A j \in dots : i >= j
             IN  IF \E k \in 1..(d - 1) : p[k] # "." THEN d ELSE 0

SplitExtRoot(p) ==
    IF SplitExtIndex(p) = 0 THEN p ELSE SubSeq(p, 1, SplitExtIndex(p) - 1)

SplitExtExt(p) ==
    IF SplitExtIndex(p) = 0 THEN <<>> ELSE SubSeq(p, SplitExtIndex(p), Len(p))

EXT_CSV == <<".","c","s","v">>
EXT_XLSX == <<".","x","l","s","x">>
EXT_XLS == <<".","x","l","s">>
EXT_PDF == <<".","p","d","f">>

(***************************************************************************)
(* Texts: a Python value that is a str (with its characters) or not.       *)
(***************************************************************************)
Str(cs) == [str |-> TRUE, chars |-> cs]
NonStr == [str |-> FALSE, chars |-> <<>>]
TA == Str(<<"a">>)
TB == Str(<<"b">>)
TBlank == Str(<<" ">>)
TEmpty == Str(<<>>)

\* isinstance(text, str) and text.strip()
IsNonBlankStr(t) == t.str /\ StripChars(t.chars, Whitespace) # <<>>

(***************************************************************************)
(* Metadata values are tagged so that str(v) is a real conversion.         *)
(***************************************************************************)
StrVal(cs) == [t |-> "str", v |-> cs]
IntVal(n) == [t |-> "int", n |-> n]

DigitChar(d) ==
    CASE d = 0 -> "0" [] d = 1 -> "1" [] d = 2 -> "2" [] d = 3 -> "3"
      [] d = 4 -> "4" [] d = 5 -> "5" [] d = 6 -> "6" [] d = 7 -> "7"
      [] d = 8 -> "8" [] OTHER -> "9"

RECURSIVE DecimalDigits(_)
DecimalDigits(n) ==
    IF n < 10 THEN <<DigitChar(n)>>
    ELSE Append(DecimalDigits(n \div 10), DigitChar(n % 10))

\* str(v) for a metadata value
PyStr(val) == IF val.t = "str" THEN val ELSE StrVal(DecimalDigits(val.n))

NoMeta == [k \in {} |-> StrVal(<<>>)]

(***************************************************************************)
(* The vector store (Qdrant): collection name -> configured vector size    *)
(* and points.  A vector is its length and the text it was computed from.  *)
(***************************************************************************)
Vec(d, t) == [dim |-> d, of |-> t]

EmptyCollection(size) == [size |-> size, points |-> {}]

\* client.create_collection / client.recreate_collection
PutCollection(st, name, size) ==
    [c \in DOMAIN st \cup {name} |->
        IF c = name THEN EmptyCollection(size) ELSE st[c]]

\* client.upsert(collection_name, points): the store refuses a batch for a
\* missing collection or with a vector of another size than the collection's
QdrantAccepts(st, name, points) ==
    /\ name \in DOMAIN st
    /\ \A p \in points : p.vector.dim = st[name].size

QdrantUpsert(st, name, points) ==
    [st EXCEPT ![name].points =
        {q \in @ : \A p \in points : p.id # q.id} \cup points]

(***************************************************************************)
(* setup_collection: create, or recreate when the name exists.             *)
(* remoteOk is whether the store's calls succeed.                          *)
(***************************************************************************)
\* mutant: an existing collection is kept as it is
setup_collection_SkipExisting(st, name, size, remoteOk) ==
    IF ~remoteOk
    THEN [raised |-> TRUE, store |-> st]
    ELSE IF name \in DOMAIN st
    THEN [raised |-> FALSE, store |-> st]
    ELSE [raised |-> FALSE, store |-> PutCollection(st, name, size)]

setup_collection(st, name, size, remoteOk) ==
    IF ~remoteOk
    THEN [raised |-> TRUE, store |-> st]
    ELSE [raised |-> FALSE, store |-> PutCollection(st, name, size)]

(***************************************************************************)
(* upsert_vectors                                                          *)
(***************************************************************************)
\* mutant: the length check forgets the embeddings
LengthsMatch_IgnoresEmbeddings(texts, metadatas, embeddings) ==
    ~(Len(texts) # Len(metadatas))

\* the length check of the three lists
LengthsMatch(texts, metadatas, embeddings) ==
    ~(Len(texts) # Len(metadatas) \/ Len(texts) # Len(embeddings))

\* mutant: the loop forgets the text test
UpsertKeeps_NoTextCheck(text, vector) ==
    ~(vector.dim = 0 \/ vector.dim # UPSERT_VECTOR_SIZE)

\* mutant: the loop tests only that the vector is not empty
UpsertKeeps_NoSizeCheck(text, vector) ==
    /\ ~(~text.str \/ StripChars(text.chars, Whitespace) = <<>>)
    /\ ~(vector.dim = 0)

\* an entry survives the two skip tests of the loop
UpsertKeeps(text, vector) ==
    /\ ~(~text.str \/ StripChars(text.chars, Whitespace) = <<>>)
    /\ ~(vector.dim = 0 \/ vector.dim # UPSERT_VECTOR_SIZE)

\* clean_meta: every value through str(), source defaulted to the collection
CleanMeta(meta, name) ==
    [k \in DOMAIN meta \cup {"source"} |->
        IF k \in DOMAIN meta THEN PyStr(meta[k]) ELSE StrVal(name)]

\* zip(texts, metadatas, embeddings) stops at the shortest list
Zip3Len(texts, metadatas, embeddings) ==
    CHOOSE n \in {Len(texts), Len(metadatas), Len(embeddings)} :
        n <= Len(texts) /\ n <= Len(metadatas) /\ n <= Len(embeddings)

\* points_to_upsert, one fresh id per surviving entry: str(uuid.uuid4()) is
\* the pair of the call's own fresh number and the point's rank in the batch
PointsToUpsert(name, texts, metadatas, embeddings, uid) ==
    LET kept == {i \in 1..Zip3Len(texts, metadatas, embeddings) :
                    UpsertKeeps(texts[i], embeddings[i])}
        rank(i) == Cardinality({j \in kept : j < i})
    IN  {[id |-> <<uid, rank(i)>>,
          vector |-> embeddings[i],
          content |-> texts[i],
          metadata |-> CleanMeta(metadatas[i], name)] : i \in kept}

upsert_vectors(st, name, texts, metadatas, embeddings, uid, remoteOk) ==
    IF ~LengthsMatch(texts, metadatas, embeddings)
    THEN [raised |-> TRUE, err |-> "ValueError", ret |-> 0, store |-> st,
          batch |-> {}, sent |-> FALSE]
    ELSE LET pts == PointsToUpsert(name, texts, metadatas, embeddings, uid)
         IN  IF pts = {}
             THEN [raised |-> FALSE, err |-> "", ret |-> 0, store |-> st,
                   batch |-> {}, sent |-> FALSE]
             ELSE IF remoteOk /\ QdrantAccepts(st, name, pts)
             THEN [raised |-> FALSE, err |-> "", ret |-> Cardinality(pts),
                   store |-> QdrantUpsert(st, name, pts),
                   batch |-> pts, sent |-> TRUE]
             ELSE [raised |-> TRUE, err |-> "StoreError", ret |-> 0,
                   store |-> st, batch |-> pts, sent |-> TRUE]

(***************************************************************************)
(* FileProcessor._load_and_chunk_file.  A file's content is what the       *)
(* loader and the splitter make of it: unparseable, or the page_content    *)
(* of each chunk the splitter yields (no chunk when nothing was loaded).   *)
(***************************************************************************)
Corrupt == [kind |-> "corrupt", chunks |-> <<>>]
Parsed(chunks) == [kind |-> "ok", chunks |-> chunks]

\* mutant: the loader also takes .pdf
LoaderExtensions_WithPdf == {EXT_CSV, EXT_XLSX, EXT_XLS, EXT_PDF}

LoaderExtensions == {EXT_CSV, EXT_XLSX, EXT_XLS}

\* the chunk passes the validation of the enrichment loop
ChunkIsValid(page_content) ==
    ~(~page_content.str \/ StripChars(page_content.chars, Whitespace) = <<>>)

\* metadata stamped on chunk i (0-based position in the splitter's output)
ChunkMeta(file_path, i) ==
    [k \in {"source", "chunk_index"} |->
        IF k = "source" THEN StrVal(file_path) ELSE IntVal(i)]

\* valid_chunks, in order
RECURSIVE ValidChunks(_, _, _)
ValidChunks(file_path, chunks, i) ==
    IF i > Len(chunks) THEN <<>>
    ELSE IF ChunkIsValid(chunks[i])
         THEN <<[page_content |-> chunks[i],
                 metadata |-> ChunkMeta(file_path, i - 1)]>>
              \o ValidChunks(file_path, chunks, i + 1)
         ELSE ValidChunks(file_path, chunks, i + 1)

\* Both failures leave as ValueError("Failed to load file ...") (the except
\* clause wraps the unsupported-type error too); err is the cause the
\* message carries: "Unsupported file type: <ext>" or the loader's error.
LoadAndChunkFile(file_path, content) ==
    LET ext == Lower(SplitExtExt(file_path))
    IN  IF ext \notin LoaderExtensions
        THEN [raised |-> TRUE, err |-> "UnsupportedFileType", chunks |-> <<>>]
        ELSE IF content.kind = "corrupt"
        THEN [raised |-> TRUE, err |-> "FileLoadError", chunks |-> <<>>]
        ELSE [raised |-> FALSE, err |-> "",
              chunks |-> ValidChunks(file_path, content.chunks, 1)]

(***************************************************************************)
(* AzureOpenAIProvider.generate_document_embeddings: the texts handed to   *)
(* the hosted model.                                                       *)
(***************************************************************************)
RECURSIVE ValidTexts(_)
ValidTexts(texts) ==
    IF texts = <<>> THEN <<>>
    ELSE IF Head(texts).str /\ StripChars(Head(texts).chars, Whitespace) # <<>>
         THEN <<Head(texts)>> \o ValidTexts(Tail(texts))
         ELSE ValidTexts(Tail(texts))

(***************************************************************************)
(* Collection name of process_and_store.                                   *)
(***************************************************************************)
\* "".join(c if c.isalnum() else '_' for c in base).lower().strip('_')
\* mutant: the name keeps the case of the file name
CleanName_NoLower(base) ==
    StripChars([i \in 1..Len(base) |->
                  IF IsAlnum(base[i]) THEN base[i] ELSE "_"], {"_"})

\* mutant: leading and trailing underscores are kept
CleanName_NoStrip(base) ==
    Lower([i \in 1..Len(base) |->
             IF IsAlnum(base[i]) THEN base[i] ELSE "_"])

CleanName(base) ==
    StripChars(Lower([i \in 1..Len(base) |->
                        IF IsAlnum(base[i]) THEN base[i] ELSE "_"]), {"_"})

\* f"file_{uuid.uuid4().hex[:8]}": the digits of the caller's fresh number
FallbackName(n) == <<"f","i","l","e","_">> \o DecimalDigits(n)

CollectionName(original_file_name, n) ==
    LET collection_name == CleanName(SplitExtRoot(original_file_name))
    IN  IF collection_name = <<>> THEN FallbackName(n) ELSE collection_name

(***************************************************************************)
(* Inputs.                                                                 *)
(***************************************************************************)
\* "Ab.csv", "ab.xlsx", "_chat4ba.threads.CSV", "_.csv", "ab.pdf"
F_Ab_csv == <<"A","b">> \o EXT_CSV
F_ab_xlsx == <<"a","b">> \o EXT_XLSX
F_underscore_csv == <<"_">> \o EXT_CSV
F_ab_pdf == <<"a","b">> \o EXT_PDF
F_threads_CSV ==
    <<"_","c","h","a","t","4","b","a",".","t","h","r","e","a","d","s",
      ".","C","S","V">>

FileNames ==
    {F_Ab_csv, F_ab_xlsx, F_threads_CSV, F_underscore_csv, F_ab_pdf}

Contents ==
    {Corrupt, Parsed(<<>>), Parsed(<<TBlank, NonStr>>),
     Parsed(<<TA, TBlank, TB>>)}

\* lengths of the vectors a hosted embedding deployment returns
ModelDimensions == {1536, 3072}

(***************************************************************************)
(* State.                                                                  *)
(***************************************************************************)
VARIABLES
    store,      \* the vector store: collection name -> [size, points]
    tasks,      \* the background ingestion tasks, in the order they were added
    disk,       \* the temporary files in UPLOAD_DIR
    submitted,  \* number of files submitted so far
    response,   \* the last response of the upload endpoint
    call,       \* the last direct call of a store function, with its outcome
    calls,      \* number of direct calls so far
    index_dir   \* the backend's index directory: file name -> stored index

vars == <<store, tasks, disk, submitted, response, call, calls, index_dir>>

NoResult ==
    [collection_name |-> <<>>, chunks_processed |-> 0, points_stored |-> 0,
     status |-> ""]

NoResponse == [code |-> 0, processed_files |-> <<>>, errors |-> <<>>]

NoCall ==
    [op |-> "", name |-> <<>>, texts |-> <<>>, metadatas |-> <<>>,
     embeddings |-> <<>>, pre |-> <<>>, raised |-> FALSE,
     err |-> "", ret |-> 0, batch |-> {}, sent |-> FALSE]

NewTask(req, file_name, file_path) ==
    [req |-> req, file_name |-> file_name, file_path |-> file_path,
     pc |-> "queued", docs |-> 0 - 1, chunks |-> <<>>, err |-> "",
     result |-> NoResult,
     embedCalled |-> FALSE, setupCalled |-> FALSE, sent |-> FALSE]

Finished(t) == tasks[t].pc \in {"done", "failed"}

\* ensure_thread_collection, the startup handler: the store held no
\* collection, and the reserved thread collection is created
ensure_thread_collection(st) ==
    IF THREAD_COLLECTION \notin DOMAIN st
    THEN PutCollection(st, THREAD_COLLECTION, THREAD_VECTOR_SIZE)
    ELSE st

NoCollections == [c \in {} |-> EmptyCollection(0)]

\* os.makedirs(INDEX_DIR): the index directory starts empty
NoIndexes == [f \in {} |-> <<>>]

Init ==
    /\ store = ensure_thread_collection(NoCollections)
    /\ tasks = <<>>
    /\ disk = {}
    /\ submitted = 0
    /\ response = NoResponse
    /\ call = NoCall
    /\ calls = 0
    /\ index_dir = NoIndexes

(***************************************************************************)
(* upload_and_process_files: the loop over the request's files.            *)
(* saved[i] is whether writing file i to UPLOAD_DIR succeeds.              *)
(***************************************************************************)
UploadExtensions == {EXT_CSV, EXT_XLSX, EXT_XLS}

\* f"{uuid.uuid4()}{file_ext}": the uuid is the number of the task to be
TempName(n, file_ext) == <<"t">> \o DecimalDigits(n) \o file_ext

RECURSIVE HandleFiles(_, _, _, _, _)
HandleFiles(files, saved, i, req, acc) ==
    IF i > Len(files) THEN acc
    ELSE LET filename == files[i]
             file_ext == Lower(SplitExtExt(filename))
             file_path == TempName(Len(acc.tasks) + 1, file_ext)
         IN  IF file_ext \notin UploadExtensions
             THEN HandleFiles(files, saved, i + 1, req,
                    [acc EXCEPT !.errors =
                        Append(@, [file |-> filename,
                                   error |-> "UnsupportedFileType"])])
             ELSE IF saved[i]
             THEN HandleFiles(files, saved, i + 1, req,
                    [acc EXCEPT !.disk = @ \cup {file_path},
                                !.tasks = Append(@, NewTask(req, filename, file_path)),
                                !.processed_files = Append(@, filename)])
             ELSE HandleFiles(files, saved, i + 1, req,
                    [acc EXCEPT !.errors =
                                    Append(@, [file |-> filename,
                                               error |-> "FailedToInitiate"])])

UploadResponse(files, acc) ==
    IF files = <<>>
    THEN [code |-> 400, processed_files |-> <<>>, errors |-> <<>>]
    ELSE IF acc.processed_files = <<>> /\ acc.errors # <<>>
    THEN [code |-> 400, processed_files |-> <<>>, errors |-> acc.errors]
    ELSE [code |-> 200, processed_files |-> acc.processed_files,
          errors |-> acc.errors]

FileLists == {<<>>} \cup {<<f>> : f \in FileNames}
                \cup {<<f, g>> : f \in FileNames, g \in FileNames}

Upload ==
    \E files \in FileLists :
      \E saved \in [1..Len(files) -> BOOLEAN] :
        /\ submitted + Len(files) <= MaxUploads
        /\ LET acc == HandleFiles(files, saved, 1, submitted + 1,
                        [disk |-> disk, tasks |-> tasks,
                         processed_files |-> <<>>, errors |-> <<>>])
           IN  /\ tasks' = acc.tasks
               /\ disk' = acc.disk
               /\ response' = UploadResponse(files, acc)
        /\ submitted' = submitted + Len(files)
        /\ UNCHANGED <<index_dir, store, call, calls>>

(***************************************************************************)
(* process_file_background / FileProcessor.process_and_store.              *)
(*                                                                         *)
(* The tasks of one request run one after the other; tasks of different    *)
(* requests interleave on the event loop, which switches only where a      *)
(* coroutine suspends.  process_and_store suspends once, in the hosted     *)
(* embedding call: loading and chunking before it, and the count check,    *)
(* setup_collection, upsert_vectors and the finally block after it, use    *)
(* synchronous calls only and run as one step each.                        *)
(***************************************************************************)
Runnable(t) ==
    /\ tasks[t].pc = "queued"
    /\ \A u \in 1..(t - 1) : tasks[u].req = tasks[t].req => Finished(u)

\* mutant: the cleanup empties the upload directory
RemoveTemp_All(d, file_path) == {}

\* the finally block: os.remove(file_path) when it exists (removing a file
\* the process itself wrote into its upload directory is taken to succeed)
RemoveTemp(d, file_path) == d \ {file_path}

Texts(chunks) == [i \in 1..Len(chunks) |-> chunks[i].page_content]
Metadatas(chunks) == [i \in 1..Len(chunks) |-> chunks[i].metadata]

\* docs, kept per task: the number of chunks the loader and the splitter
\* made of the file, -1 while the file has not been read or when it could
\* not be parsed
DocsLoaded(loaded, content) ==
    IF loaded.err = "UnsupportedFileType" \/ content.kind = "corrupt"
    THEN 0 - 1 ELSE Len(content.chunks)

\* mutant: process_and_store goes on with an empty list of chunks
NothingToStore_Never(chunks) == FALSE

\* `if not chunks:` the early return of process_and_store
NothingToStore(chunks) == chunks = <<>>

\* step 1: load and chunk, up to the await of the embedding call
TaskLoad(t) ==
    /\ Runnable(t)
    /\ \E content \in Contents :
         LET task == tasks[t]
             loaded == LoadAndChunkFile(task.file_path, content)
         IN  IF loaded.raised
             THEN /\ tasks' = [tasks EXCEPT ![t].pc = "failed",
                                            ![t].docs = DocsLoaded(loaded, content),
                                            ![t].err = loaded.err]
                  /\ disk' = RemoveTemp(disk, task.file_path)
             ELSE IF NothingToStore(loaded.chunks)
             THEN /\ tasks' = [tasks EXCEPT
                        ![t].pc = "done",
                        ![t].docs = DocsLoaded(loaded, content),
                        ![t].result = [NoResult EXCEPT
                                         !.status = "No content processed"]]
                  /\ disk' = RemoveTemp(disk, task.file_path)
             ELSE IF ValidTexts(Texts(loaded.chunks)) = <<>>
             THEN \* no hosted call: [] comes back, the count check raises
                  /\ tasks' = [tasks EXCEPT ![t].pc = "failed",
                                            ![t].docs = DocsLoaded(loaded, content),
                                            ![t].err = "RuntimeError"]
                  /\ disk' = RemoveTemp(disk, task.file_path)
             ELSE /\ tasks' = [tasks EXCEPT ![t].pc = "embedding",
                                            ![t].docs = DocsLoaded(loaded, content),
                                            ![t].chunks = loaded.chunks,
                                            ![t].embedCalled = TRUE]
                  /\ disk' = disk
    /\ UNCHANGED <<index_dir, store, submitted, response, call, calls>>

\* mutant: the number of vectors is not compared with the number of texts
CountMismatch_Never(vectors, texts) == FALSE

\* `if len(vectors) != len(texts)`: the embedding count check
CountMismatch(vectors, texts) == Len(vectors) # Len(texts)

\* steps 2-5 when the embedding call has returned `vectors`
StoreChunks(t, vectors, setupOk, upsertOk) ==
    LET task == tasks[t]
        texts == Texts(task.chunks)
        metadatas == Metadatas(task.chunks)
        collection_name == CollectionName(task.file_name, t)
        setup == setup_collection(store, collection_name,
                                  EXPECTED_VECTOR_SIZE, setupOk)
        up == upsert_vectors(setup.store, collection_name, texts, metadatas,
                             vectors, t, upsertOk)
    IN  IF CountMismatch(vectors, texts)
        THEN /\ tasks' = [tasks EXCEPT ![t].pc = "failed",
                                       ![t].chunks = <<>>,
                                       ![t].err = "RuntimeError"]
             /\ store' = store
        ELSE IF setup.raised
        THEN /\ tasks' = [tasks EXCEPT ![t].pc = "failed",
                                       ![t].chunks = <<>>,
                                       ![t].setupCalled = TRUE,
                                       ![t].err = "StoreError"]
             /\ store' = setup.store
        ELSE IF up.raised
        THEN /\ tasks' = [tasks EXCEPT ![t].pc = "failed",
                                       ![t].chunks = <<>>,
                                       ![t].setupCalled = TRUE,
                                       ![t].sent = up.sent,
                                       ![t].err = up.err]
             /\ store' = up.store
        ELSE /\ tasks' = [tasks EXCEPT
                   ![t].pc = "done",
                   ![t].chunks = <<>>,
                   ![t].setupCalled = TRUE,
                   ![t].sent = up.sent,
                   ![t].result = [collection_name |-> collection_name,
                                  chunks_processed |-> Len(task.chunks),
                                  points_stored |-> up.ret,
                                  status |-> "Success"]]
             /\ store' = up.store

\* the number of vectors the hosted model returns for the texts handed
\* over: one per text, or a list that is one vector short
ReturnedCounts(valid_texts) == {Len(valid_texts), Len(valid_texts) - 1}

\* step 2: the embedding call returns (vectors for the texts handed over,
\* all of the length of the deployment that served the call) or fails; then
\* steps 3-5 and the finally block
TaskEmbedded(t) ==
    /\ tasks[t].pc = "embedding"
    /\ LET valid_texts == ValidTexts(Texts(tasks[t].chunks))
       IN  \/ /\ tasks' = [tasks EXCEPT ![t].pc = "failed",
                                        ![t].chunks = <<>>,
                                        ![t].err = "EmbeddingServiceError"]
              /\ store' = store
           \/ \E dim \in ModelDimensions :
                \E setupOk \in BOOLEAN, upsertOk \in BOOLEAN,
                   returned \in ReturnedCounts(valid_texts) :
                  StoreChunks(t,
                      [i \in 1..returned |-> Vec(dim, valid_texts[i])],
                      setupOk, upsertOk)
    /\ disk' = RemoveTemp(disk, tasks[t].file_path)
    /\ UNCHANGED <<index_dir, submitted, response, call, calls>>

Next ==
    \/ Upload
    \/ \E t \in 1..Len(tasks) : TaskLoad(t)
    \/ \E t \in 1..Len(tasks) : TaskEmbedded(t)

Spec == Init /\ [][Next]_vars

(***************************************************************************)
(* store_texts_in_qdrant (the older pipeline: create the collection only   *)
(* when it is absent, embed text by text).  embedded[i] is what            *)
(* embed_query returns for entry i: a vector of some length, or an error.  *)
(***************************************************************************)
EmbedError == [ok |-> FALSE, dim |-> 0]
Embedded(d) == [ok |-> TRUE, dim |-> d]

\* str.isspace()
IsSpace(cs) == cs # <<>> /\ \A i \in 1..Len(cs) : cs[i] \in Whitespace

\* text[:4000] when len(text) > 4000
Truncate(t) ==
    IF Len(t.chars) > MAX_TEXT_LEN
    THEN Str(SubSeq(t.chars, 1, MAX_TEXT_LEN)) ELSE t

\* zip(texts, metadatas) stops at the shorter list
ZipLen(texts, metadatas) ==
    IF Len(texts) <= Len(metadatas) THEN Len(texts) ELSE Len(metadatas)

\* entry i yields a point
VectorizerKeeps(text, emb) ==
    /\ text.str
    /\ ~(text.chars = <<>> \/ IsSpace(text.chars))
    /\ emb.ok
    /\ ~(emb.dim # VECTORIZER_VECTOR_SIZE)

VectorizerPoints(texts, metadatas, embedded, uid) ==
    LET kept == {i \in 1..ZipLen(texts, metadatas) :
                    VectorizerKeeps(texts[i], embedded[i])}
        rank(i) == Cardinality({j \in kept : j < i})
    IN  {[id |-> <<uid, rank(i)>>,
          vector |-> Vec(embedded[i].dim, Truncate(texts[i])),
          content |-> Truncate(texts[i]),
          metadata |-> metadatas[i]] : i \in kept}

store_texts_in_qdrant(st, texts, metadatas, name, embedded, uid, remoteOk) ==
    IF ~remoteOk
    THEN [raised |-> TRUE, err |-> "StoreError", ret |-> 0, store |-> st,
          batch |-> {}, sent |-> FALSE]
    ELSE LET ensured == IF name \notin DOMAIN st
                        THEN PutCollection(st, name, VECTORIZER_VECTOR_SIZE)
                        ELSE st
             pts == VectorizerPoints(texts, metadatas, embedded, uid)
         IN  IF pts = {}
             THEN [raised |-> TRUE, err |-> "NoValidPoints", ret |-> 0,
                   store |-> ensured, batch |-> {}, sent |-> FALSE]
             ELSE IF QdrantAccepts(ensured, name, pts)
             THEN [raised |-> FALSE, err |-> "", ret |-> Cardinality(pts),
                   store |-> QdrantUpsert(ensured, name, pts),
                   batch |-> pts, sent |-> TRUE]
             ELSE [raised |-> TRUE, err |-> "StoreError", ret |-> 0,
                   store |-> ensured, batch |-> pts, sent |-> TRUE]

(***************************************************************************)
(* Direct calls of the store functions, with arguments from small sets.    *)
(***************************************************************************)
CallNames == {<<"a","b">>, THREAD_COLLECTION}

TextLists ==
    {<<>>, <<TA>>, <<TBlank>>, <<NonStr, TEmpty>>, <<TA, TBlank>>,
     <<TB, TA>>}

SourceMeta == [k \in {"source"} |-> StrVal(<<"s">>)]
IndexMeta == [k \in {"chunk_index"} |-> IntVal(12)]

MetaLists ==
    {<<>>, <<NoMeta>>, <<SourceMeta, IndexMeta>>}

VectorLists ==
    {<<>>, <<Vec(3072, TA)>>, <<Vec(0, TA)>>,
     <<Vec(3072, TA), Vec(1536, TA)>>, <<Vec(3072, TB), Vec(3072, TA)>>,
     <<Vec(1536, TB), Vec(1536, TA)>>}

EmbedOutcomes == {EmbedError} \cup {Embedded(d) : d \in ModelDimensions}

\* mutant: every call reuses the same ids
CallUid_Reused(n) == 0

\* the uuids of direct call number n
CallUid(n) == 0 - n

SetupCollectionCall ==
    /\ calls < MaxCalls
    /\ \E name \in CallNames, remoteOk \in BOOLEAN :
         LET r == setup_collection(store, name, EXPECTED_VECTOR_SIZE, remoteOk)
         IN  /\ store' = r.store
             /\ call' = [NoCall EXCEPT !.op = "setup_collection",
                                       !.name = name, !.pre = store,
                                       !.raised = r.raised]
    /\ calls' = calls + 1
    /\ UNCHANGED <<index_dir, tasks, disk, submitted, response>>

UpsertVectorsCall ==
    /\ calls < MaxCalls
    /\ \E name \in CallNames, texts \in TextLists, metadatas \in MetaLists,
          embeddings \in VectorLists, remoteOk \in BOOLEAN :
         LET r == upsert_vectors(store, name, texts, metadatas, embeddings,
                                 CallUid(calls + 1), remoteOk)
         IN  /\ store' = r.store
             /\ call' = [op |-> "upsert_vectors", name |-> name,
                         texts |-> texts, metadatas |-> metadatas,
                         embeddings |-> embeddings, pre |-> store,
                         raised |-> r.raised, err |-> r.err, ret |-> r.ret,
                         batch |-> r.batch, sent |-> r.sent]
    /\ calls' = calls + 1
    /\ UNCHANGED <<index_dir, tasks, disk, submitted, response>>

StoreTextsCall ==
    /\ calls < MaxCalls
    /\ \E name \in CallNames, texts \in TextLists, metadatas \in MetaLists,
          remoteOk \in BOOLEAN :
         \E embedded \in [1..ZipLen(texts, metadatas) -> EmbedOutcomes] :
           LET r == store_texts_in_qdrant(store, texts, metadatas, name,
                                          embedded, CallUid(calls + 1), remoteOk)
           IN  /\ store' = r.store
               /\ call' = [op |-> "store_texts_in_qdrant", name |-> name,
                           texts |-> texts, metadatas |-> metadatas,
                           embeddings |-> embedded, pre |-> store,
                           raised |-> r.raised, err |-> r.err, ret |-> r.ret,
                           batch |-> r.batch, sent |-> r.sent]
    /\ calls' = calls + 1
    /\ UNCHANGED <<index_dir, tasks, disk, submitted, response>>

NextLib ==
    \/ SetupCollectionCall
    \/ UpsertVectorsCall
    \/ StoreTextsCall

LibSpec == Init /\ [][NextLib]_vars

(***************************************************************************)
(* Direct calls of process_and_store, with a file path and an original     *)
(* file name from small sets (no upload endpoint in front of it).          *)
(***************************************************************************)
PathExtensions == {EXT_CSV, EXT_PDF, <<".","X","L","S">>, <<>>}
DirectNames == {F_Ab_csv, F_ab_pdf}

ProcessAndStoreCall ==
    /\ submitted < MaxUploads
    /\ \E ext \in PathExtensions, file_name \in DirectNames :
         tasks' = Append(tasks,
                    NewTask(submitted + 1, file_name,
                            TempName(Len(tasks) + 1, ext)))
    /\ submitted' = submitted + 1
    /\ UNCHANGED <<index_dir, store, disk, response, call, calls>>

NextProc ==
    \/ ProcessAndStoreCall
    \/ \E t \in 1..Len(tasks) : TaskLoad(t)
    \/ \E t \in 1..Len(tasks) : TaskEmbedded(t)

ProcSpec == Init /\ [][NextProc]_vars

(***************************************************************************)
(* Properties.                                                             *)
(***************************************************************************)
\* a text is a string with at least one non-whitespace character
NonBlankString(t) == t.str /\ \E i \in 1..Len(t.chars) : t.chars[i] # " "

AllPoints(st) == UNION {st[c].points : c \in DOMAIN st}

EqualLengths(c) ==
    Len(c.texts) = Len(c.metadatas) /\ Len(c.texts) = Len(c.embeddings)

\* the entries of an upsert_vectors call that must survive
Surviving(c) ==
    {i \in 1..Len(c.texts) :
        NonBlankString(c.texts[i]) /\ c.embeddings[i].dim = UPSERT_VECTOR_SIZE}

\* C1: an upsert_vectors call with equal-length arguments that returns,
\* returns the number of entries with a non-blank string text and a vector
\* of the expected dimension; the target collection keeps its points and
\* gains exactly one point under a fresh id per surviving entry, carrying
\* that entry's text and vector; nothing else in the store changes.
C1_UpsertCount ==
    (call.op = "upsert_vectors" /\ EqualLengths(call) /\ ~call.raised) =>
        LET n == Cardinality(Surviving(call))
            old == IF call.name \in DOMAIN call.pre
                   THEN call.pre[call.name].points ELSE {}
        IN  /\ call.ret = n
            /\ DOMAIN store = DOMAIN call.pre
            /\ \A c \in DOMAIN store \ {call.name} : store[c] = call.pre[c]
            /\ n = 0 => store = call.pre
            /\ n > 0 =>
                 /\ call.name \in DOMAIN store
                 /\ old \subseteq store[call.name].points
                 /\ LET new == store[call.name].points \ old
                    IN  /\ Cardinality(new) = n
                        /\ Cardinality({p.id : p \in new}) = n
                        /\ \A p \in new, q \in AllPoints(call.pre) : p.id # q.id
                        /\ \A i \in Surviving(call) :
                             \E p \in new : /\ p.content = call.texts[i]
                                            /\ p.vector = call.embeddings[i]
                        /\ call.sent /\ call.batch = new

\* C1 witness: a call that stored some but not all of its entries into a
\* collection that already held points
C1_Witness ==
    /\ call.op = "upsert_vectors" /\ ~call.raised
    /\ call.ret > 0 /\ call.ret < Len(call.texts)
    /\ call.name \in DOMAIN call.pre
    /\ call.pre[call.name].points # {}

\* C2: an upsert_vectors call whose three lists are not all of the same
\* length fails with the argument error, sends no batch and leaves the
\* store as it was.
C2_MismatchFails ==
    (call.op = "upsert_vectors" /\ ~EqualLengths(call)) =>
        /\ call.raised /\ call.err = "ValueError"
        /\ ~call.sent /\ call.batch = {}
        /\ store = call.pre

\* C2 witness: a mismatched call whose first entry was fit to be stored in
\* an existing collection of the right size
C2_Witness ==
    /\ call.op = "upsert_vectors" /\ ~EqualLengths(call)
    /\ Len(call.texts) > 0 /\ Len(call.metadatas) > 0 /\ Len(call.embeddings) > 0
    /\ NonBlankString(call.texts[1])
    /\ call.embeddings[1].dim = UPSERT_VECTOR_SIZE
    /\ call.name \in DOMAIN call.pre
    /\ call.pre[call.name].size = UPSERT_VECTOR_SIZE

FileCollections(st) == DOMAIN st \ {THREAD_COLLECTION}

\* C3: every point in a file collection has a vector of the length the
\* collection is configured with, and every batch an ingestion function
\* sends to a file collection holds only vectors of that length (a vector
\* of another length is dropped before the write).
C3_VectorSize ==
    /\ \A c \in FileCollections(store) :
         \A p \in store[c].points : p.vector.dim = store[c].size
    /\ (call.sent /\ call.name \in FileCollections(store)) =>
         \A p \in call.batch : p.vector.dim = store[call.name].size

\* C3 witness: a call dropped a vector of another length and stored the rest
C3_Witness ==
    /\ call.op \in {"upsert_vectors", "store_texts_in_qdrant"}
    /\ ~call.raised /\ call.sent
    /\ call.name \in FileCollections(store)
    /\ \E i \in 1..Len(call.embeddings) :
         call.embeddings[i].dim \notin {0, store[call.name].size}
    /\ Cardinality(store[call.name].points) > Cardinality(call.batch)

\* entry i of a call can become a point: a non-blank string text with a
\* vector (given, or returned by embed_query) of the expected length
EntryValid(c, i) ==
    /\ i <= Len(c.embeddings)
    /\ NonBlankString(c.texts[i])
    /\ c.embeddings[i].dim = UPSERT_VECTOR_SIZE

\* C4: a store call whose batch holds at least one entry, all of them
\* invalid, fails with an error instead of returning.
C4_AllInvalidFails ==
    (/\ call.op \in {"upsert_vectors", "store_texts_in_qdrant"}
     /\ Len(call.texts) > 0
     /\ call.op = "upsert_vectors" => EqualLengths(call)
     /\ \A i \in 1..Len(call.texts) : ~EntryValid(call, i))
    => call.raised

(***************************************************************************)
(* Ingestion tasks and the collections they write.                         *)
(***************************************************************************)
Succeeded(t) ==
    tasks[t].pc = "done" /\ tasks[t].result.status = "Success"

NameOf(t) == tasks[t].result.collection_name

\* the points a task wrote carry the task's number in their id
PointsOf(st, t) == {p \in AllPoints(st) : p.id[1] = t}

\* C5: when two ingestion tasks of different requests have both finished
\* successfully with the same collection name, the collection exists, is
\* not empty and holds exactly the points one of the two stored (all of
\* that task's points and no point of the other).
C5_LastWriteWins ==
    \A t \in 1..Len(tasks), u \in 1..Len(tasks) :
        (/\ t # u /\ tasks[t].req # tasks[u].req
         /\ Succeeded(t) /\ Succeeded(u) /\ NameOf(t) = NameOf(u))
        => /\ NameOf(t) \in DOMAIN store
           /\ store[NameOf(t)].points # {}
           /\ \E w \in {t, u} :
                /\ \A p \in store[NameOf(t)].points : p.id[1] = w
                /\ Cardinality(store[NameOf(t)].points)
                     = tasks[w].result.points_stored

\* C6: a step in which a task's setup_collection succeeds leaves the
\* task's collection with the requested vector size and without any point
\* it held before; when the task then finishes successfully the collection
\* holds exactly the points the task stored, and when the store refuses
\* the task's batch the collection is left empty.  No other collection
\* changes in the step.
C6_RecreateReplaces ==
    [][\A t \in 1..Len(tasks) :
         (/\ tasks[t].pc = "embedding"
          /\ tasks'[t].setupCalled
          /\ (tasks'[t].pc = "done" \/ tasks'[t].sent))
         => \E n \in DOMAIN store' :
              /\ tasks'[t].pc = "done" => n = tasks'[t].result.collection_name
              /\ store'[n].size = EXPECTED_VECTOR_SIZE
              /\ n \in DOMAIN store =>
                    store'[n].points \cap store[n].points = {}
              /\ \A p \in store'[n].points : p.id[1] = t
              /\ IF tasks'[t].pc = "done"
                 THEN Cardinality(store'[n].points)
                        = tasks'[t].result.points_stored
                 ELSE store'[n].points = {}
              /\ \A c \in DOMAIN store \ {n} :
                    c \in DOMAIN store' /\ store'[c] = store[c]
      ]_vars

\* C6 witness: two uploads of the same file name both stored points, and
\* the collection holds only the points of one of them
C6_Witness ==
    \E t \in 1..Len(tasks), u \in 1..Len(tasks) :
        /\ t # u /\ tasks[t].file_name = tasks[u].file_name
        /\ Succeeded(t) /\ Succeeded(u)
        /\ tasks[t].result.points_stored > 0
        /\ tasks[u].result.points_stored > 0
        /\ NameOf(t) = NameOf(u)
        /\ store[NameOf(u)].size = EXPECTED_VECTOR_SIZE
        /\ PointsOf(store, t) = {}
        /\ store[NameOf(u)].points = PointsOf(store, u)
        /\ Cardinality(PointsOf(store, u)) = tasks[u].result.points_stored

\* the name a file name stands for: the part before the extension, letters
\* lowercased, every character that is neither letter nor digit turned into
\* an underscore, without the underscores at either end
Canonical(file_name) ==
    LET base == SplitExtRoot(file_name)
        m == [i \in 1..Len(base) |->
                IF base[i] \in UpperLetters THEN LowerChar(base[i])
                ELSE IF base[i] \in LowerLetters \cup Digits THEN base[i]
                ELSE "_"]
        inner == {i \in 1..Len(m) :
                    /\ \E j \in 1..i : m[j] # "_"
                    /\ \E j \in i..Len(m) : m[j] # "_"}
    IN  [k \in 1..Cardinality(inner) |->
            m[(CHOOSE i \in inner : \A j \in inner : i <= j) + k - 1]]

\* the part before the extension with the characters mapped only
MappedBase(file_name) ==
    LET base == SplitExtRoot(file_name)
    IN  [i \in 1..Len(base) |->
            IF base[i] \in UpperLetters THEN LowerChar(base[i])
            ELSE IF base[i] \in LowerLetters \cup Digits THEN base[i]
            ELSE "_"]

IsFallbackName(name) ==
    /\ Len(name) > 5
    /\ SubSeq(name, 1, 5) = <<"f","i","l","e","_">>

\* C7 (as stated): two successful uploads of different file names have
\* different collection names.
C7_OneCollectionPerFile ==
    \A t \in 1..Len(tasks), u \in 1..Len(tasks) :
        (Succeeded(t) /\ Succeeded(u)
         /\ tasks[t].file_name # tasks[u].file_name)
        => NameOf(t) # NameOf(u)

\* C7 (amended): two successful uploads have the same collection name
\* exactly when their file names stand for the same non-empty canonical
\* name; a collection never holds points of two uploads; and a successful
\* ingestion changes no collection but the one with its own name.
C7_SameNameIffSameCanonical ==
    /\ [](\A t \in 1..Len(tasks), u \in 1..Len(tasks) :
            (t # u /\ Succeeded(t) /\ Succeeded(u)) =>
               ((NameOf(t) = NameOf(u))
                  <=> (/\ Canonical(tasks[t].file_name) # <<>>
                       /\ Canonical(tasks[t].file_name)
                            = Canonical(tasks[u].file_name))))
    /\ [](\A c \in DOMAIN store :
            \A p \in store[c].points, q \in store[c].points :
               p.id[1] = q.id[1])
    /\ [][\A t \in 1..Len(tasks) :
            (/\ tasks[t].pc = "embedding"
             /\ tasks'[t].pc = "done"
             /\ tasks'[t].result.status = "Success")
            => \A c \in DOMAIN store \ {tasks'[t].result.collection_name} :
                  c \in DOMAIN store' /\ store'[c] = store[c]
         ]_vars

\* C7 witness: uploads of two different file names share a collection, and
\* the points the earlier one stored are gone
C7_Witness ==
    \E t \in 1..Len(tasks), u \in 1..Len(tasks) :
        /\ tasks[t].file_name # tasks[u].file_name
        /\ Succeeded(t) /\ Succeeded(u)
        /\ NameOf(t) = NameOf(u)
        /\ tasks[t].result.points_stored > 0
        /\ tasks[u].result.points_stored > 0
        /\ PointsOf(store, t) = {}
        /\ PointsOf(store, u) # {}

\* C8 (as stated): the collection name of a successful upload is the part
\* of the file name before the extension with every letter lowercased and
\* every other non-digit character replaced by an underscore; a fallback
\* name is used exactly when that is empty; and uploads of the same file
\* name have the same collection name.
C8_NameIsCharacterMap ==
    /\ \A t \in 1..Len(tasks) :
         Succeeded(t) =>
            IF MappedBase(tasks[t].file_name) # <<>>
            THEN NameOf(t) = MappedBase(tasks[t].file_name)
            ELSE IsFallbackName(NameOf(t))
    /\ \A t \in 1..Len(tasks), u \in 1..Len(tasks) :
         (Succeeded(t) /\ Succeeded(u)
          /\ tasks[t].file_name = tasks[u].file_name)
         => NameOf(t) = NameOf(u)

\* C8 (amended): the collection name of a successful upload is the
\* canonical name of the file name (extension removed, characters mapped,
\* underscores at either end removed) when that is not empty, and otherwise
\* a fallback name that no other upload has; it is never empty; and
\* uploads of the same file name with a non-empty canonical name have the
\* same collection name.
C8_NameIsCanonical ==
    /\ \A t \in 1..Len(tasks) :
         Succeeded(t) =>
            /\ NameOf(t) # <<>>
            /\ IF Canonical(tasks[t].file_name) # <<>>
               THEN NameOf(t) = Canonical(tasks[t].file_name)
               ELSE /\ IsFallbackName(NameOf(t))
                    /\ \A u \in 1..Len(tasks) :
                         (u # t /\ Succeeded(u)) => NameOf(u) # NameOf(t)
    /\ \A t \in 1..Len(tasks), u \in 1..Len(tasks) :
         (/\ Succeeded(t) /\ Succeeded(u)
          /\ tasks[t].file_name = tasks[u].file_name
          /\ Canonical(tasks[t].file_name) # <<>>)
         => NameOf(t) = NameOf(u)

\* C8 witness: one upload got a fallback name although its base name maps
\* to a non-empty string, another a name shorter than its mapped base name
C8_Witness ==
    \E t \in 1..Len(tasks), u \in 1..Len(tasks) :
        /\ Succeeded(t) /\ Succeeded(u)
        /\ MappedBase(tasks[t].file_name) # <<>>
        /\ IsFallbackName(NameOf(t))
        /\ ~IsFallbackName(NameOf(u))
        /\ Len(NameOf(u)) < Len(MappedBase(tasks[u].file_name))
        /\ NameOf(u) \in DOMAIN store

\* C9: when the embedding call fails for an entry of a store operation,
\* the operation fails and writes no point: a store_texts_in_qdrant call
\* whose embed_query failed for an entry raises, sends no batch and leaves
\* the points of the store as they were; an ingestion task whose embedding
\* call failed has failed without setting up a collection or sending points.
C9_EmbeddingFailureAborts ==
    /\ (/\ call.op = "store_texts_in_qdrant"
        /\ \E i \in 1..ZipLen(call.texts, call.metadatas) :
              NonBlankString(call.texts[i]) /\ ~call.embeddings[i].ok)
       => /\ call.raised
          /\ ~call.sent
          /\ AllPoints(store) = AllPoints(call.pre)
    /\ \A t \in 1..Len(tasks) :
         tasks[t].err = "EmbeddingServiceError" =>
            /\ tasks[t].pc = "failed"
            /\ ~tasks[t].setupCalled /\ ~tasks[t].sent
            /\ PointsOf(store, t) = {}

\* the extensions process_and_store can load
IsLoadable(file_path) ==
    Lower(SplitExtExt(file_path)) \in {EXT_CSV, EXT_XLSX, EXT_XLS}

\* C10: a task whose file has an extension outside the allow-list never
\* calls the embedding service, never sets up a collection and never sends
\* points; once it has run it has failed with the unsupported-file-type
\* error, and the store holds no point of it.
C10_UnsupportedFailsFast ==
    \A t \in 1..Len(tasks) :
        ~IsLoadable(tasks[t].file_path) =>
            /\ ~tasks[t].embedCalled
            /\ ~tasks[t].setupCalled
            /\ ~tasks[t].sent
            /\ tasks[t].pc \in {"queued", "failed"}
            /\ tasks[t].pc = "failed" => tasks[t].err = "UnsupportedFileType"
            /\ tasks[t].result = NoResult
            /\ PointsOf(store, t) = {}

\* C10 witness: a .pdf task has failed with the store as the startup left
\* it, and a later task with a loadable file has stored points
C10_Witness ==
    \E t \in 1..Len(tasks), u \in 1..Len(tasks) :
        /\ Lower(SplitExtExt(tasks[t].file_path)) = EXT_PDF
        /\ tasks[t].pc = "failed"
        /\ tasks[t].err = "UnsupportedFileType"
        /\ t < u
        /\ Succeeded(u) /\ tasks[u].result.points_stored > 0
        /\ PointsOf(store, u) # {}

ALLOWED_EXTENSIONS ==
    {EXT_CSV, EXT_XLSX, EXT_XLS,
     <<".","x","l","s","m">>, <<".","x","l","s","b">>,
     <<".","x","l","t","x">>, <<".","x","l","t","m">>, <<".","x","l","t">>}

MIME_TYPE_MAP(ext) ==
    IF ext = EXT_CSV
    THEN {"text/csv", "text/plain", "application/vnd.ms-excel",
          "application/csv", "text/x-csv"}
    ELSE IF ext = EXT_XLSX
    THEN {"application/vnd.openxmlformats-officedocument.spreadsheetml.sheet"}
    ELSE IF ext = EXT_XLS THEN {"application/vnd.ms-excel"}
    ELSE IF ext = <<".","x","l","s","m">>
    THEN {"application/vnd.ms-excel.sheet.macroEnabled.12"}
    ELSE IF ext = <<".","x","l","s","b">>
    THEN {"application/vnd.ms-excel.sheet.binary.macroEnabled.12"}
    ELSE IF ext = <<".","x","l","t","x">>
    THEN {"application/vnd.openxmlformats-officedocument.spreadsheetml.template"}
    ELSE IF ext = <<".","x","l","t","m">>
    THEN {"application/vnd.ms-excel.template.macroEnabled.12"}
    ELSE IF ext = <<".","x","l","t">> THEN {"application/vnd.ms-excel"}
    ELSE {}

\* validate_file: the error it raises, "" when it returns
validate_file(file) ==
    LET ext == Lower(SplitExtExt(file.filename))
    IN  IF file.filename = <<>> THEN "FilenameRequired"
        ELSE IF ext \notin ALLOWED_EXTENSIONS THEN "UnsupportedFileType"
        ELSE IF file.content_type \notin MIME_TYPE_MAP(ext) THEN "MimeMismatch"
        ELSE ""

ErrorEntry(file, error) ==
    [filename |-> file.filename, status |-> "error", error |-> error]

\* preview_files, from file i on.  bound is whether the local temp_path has
\* been assigned.  A valid file is saved to a temporary file and
\* FileProcessor.process_file is called, which does not exist: the
\* AttributeError is caught and reported.  The finally block reads
\* temp_path; while it is unassigned that read raises out of the loop and
\* the request fails.
RECURSIVE PreviewLoop(_, _, _, _)
PreviewLoop(files, i, bound, results) ==
    IF i > Len(files) THEN [code |-> 200, files |-> results]
    ELSE LET invalid == validate_file(files[i])
             entry == ErrorEntry(files[i], IF invalid # "" THEN invalid
                                           ELSE "AttributeError")
         IN  IF invalid # "" /\ ~bound
             THEN [code |-> 500, files |-> <<>>]
             ELSE PreviewLoop(files, i + 1, TRUE, Append(results, entry))

\* process_files, from file i on.  A valid file is saved to a temporary
\* file and process_and_store is called with two of its three arguments:
\* the TypeError is caught and reported.  The finally block is guarded by
\* 'temp_path' in locals().
RECURSIVE ProcessLoop(_, _, _)
ProcessLoop(files, i, results) ==
    IF i > Len(files) THEN [code |-> 200, files |-> results]
    ELSE LET invalid == validate_file(files[i])
             entry == ErrorEntry(files[i], IF invalid # "" THEN invalid
                                           ELSE "TypeError")
         IN  ProcessLoop(files, i + 1, Append(results, entry))

ContentTypes == {"text/csv", "application/vnd.ms-excel", "application/pdf"}

UploadFiles ==
    {[filename |-> f, content_type |-> c] :
        f \in {F_Ab_csv, F_ab_xlsx, F_ab_pdf}, c \in ContentTypes}

UploadFileLists ==
    {<<f>> : f \in UploadFiles} \cup {<<f, g>> : f \in UploadFiles, g \in UploadFiles}

\* every temporary file of the request is unlinked before the handler
\* returns or raises, so the disk is as before
PreviewFiles ==
    /\ \E files \in UploadFileLists :
         /\ submitted + Len(files) <= MaxUploads
         /\ submitted' = submitted + Len(files)
         /\ LET r == PreviewLoop(files, 1, FALSE, <<>>)
            IN  response' = [endpoint |-> "preview", request |-> files,
                             code |-> r.code, files |-> r.files]
    /\ UNCHANGED <<index_dir, store, tasks, disk, call, calls>>

ProcessFiles ==
    /\ \E files \in UploadFileLists :
         /\ submitted + Len(files) <= MaxUploads
         /\ submitted' = submitted + Len(files)
         /\ LET r == ProcessLoop(files, 1, <<>>)
            IN  response' = [endpoint |-> "process", request |-> files,
                             code |-> r.code, files |-> r.files]
    /\ UNCHANGED <<index_dir, store, tasks, disk, call, calls>>

NextData ==
    \/ PreviewFiles
    \/ ProcessFiles

DataSpec == Init /\ [][NextData]_vars

\* C12: a preview or process request with several files answers with one
\* result entry per file, in order, each naming its file, whatever files
\* of the request failed: the request itself does not fail.
C12_FailureIsolated ==
    ("endpoint" \in DOMAIN response /\ Len(response.request) > 1) =>
        /\ response.code = 200
        /\ Len(response.files) = Len(response.request)
        /\ \A i \in 1..Len(response.request) :
             response.files[i].filename = response.request[i].filename

(***************************************************************************)
(* Chunk metadata.                                                         *)
(***************************************************************************)
\* C13: every chunk an ingestion task holds, and every point a task has
\* stored, carries as metadata source the original file name of the upload.
C13_SourceIsOriginalName ==
    /\ \A t \in 1..Len(tasks) :
         \A i \in 1..Len(tasks[t].chunks) :
            tasks[t].chunks[i].metadata["source"] = StrVal(tasks[t].file_name)
    /\ \A p \in AllPoints(store) :
         p.id[1] \in 1..Len(tasks) =>
            p.metadata["source"] = StrVal(tasks[p.id[1]].file_name)

\* C14: the chunks an ingestion task got from _load_and_chunk_file all have
\* a non-blank string text, and the i-th of them (counting from 0) carries
\* chunk_index i.
C14_ChunkIndexIsPosition ==
    \A t \in 1..Len(tasks) :
        \A i \in 1..Len(tasks[t].chunks) :
            /\ NonBlankString(tasks[t].chunks[i].page_content)
            /\ tasks[t].chunks[i].metadata["chunk_index"] = IntVal(i - 1)

\* C15: a task whose file held no documents has ended without an error,
\* with the nothing-stored result (no collection name, 0 chunks processed,
\* 0 points stored), without an embedding call, a collection setup or a
\* write; and the step in which it ran left the store as it was.
C15_EmptyFileStoresNothing ==
    /\ [](\A t \in 1..Len(tasks) :
            tasks[t].docs = 0 =>
               /\ tasks[t].pc = "done" /\ tasks[t].err = ""
               /\ tasks[t].result =
                     [collection_name |-> <<>>, chunks_processed |-> 0,
                      points_stored |-> 0, status |-> "No content processed"]
               /\ ~tasks[t].embedCalled
               /\ ~tasks[t].setupCalled
               /\ ~tasks[t].sent
               /\ PointsOf(store, t) = {})
    /\ [][\A t \in 1..Len(tasks) :
            (tasks[t].docs # 0 /\ tasks'[t].docs = 0) => store' = store
         ]_vars

\* C15 witness: a task with an empty file has ended after another task had
\* stored points, which are still there
C15_Witness ==
    \E t \in 1..Len(tasks), u \in 1..Len(tasks) :
        /\ tasks[t].docs = 0 /\ tasks[t].pc = "done"
        /\ Succeeded(u) /\ tasks[u].result.points_stored > 0
        /\ PointsOf(store, u) # {}

(***************************************************************************)
(* query_router: the query endpoints.  They read the store and call the    *)
(* hosted embedding model and the hosted chat model.  An outcome is the    *)
(* status code, the error or the answer and sources, and the external      *)
(* calls the handler made, in order.                                       *)
(***************************************************************************)
\* `not query.strip()`
QueryIsBlank(query) == StripChars(query, Whitespace) = <<>>

\* the points of a collection in the order of their similarity to the
\* query vector (kept abstract: a fixed order of the points)
RECURSIVE ByScore(_)
ByScore(points) ==
    IF points = {} THEN <<>>
    ELSE LET best == CHOOSE p \in points :
                        \A q \in points :
                           \/ p.id[2] < q.id[2]
                           \/ p.id[2] = q.id[2] /\ p.id[1] <= q.id[1]
         IN  <<best>> \o ByScore(points \ {best})

\* client.search(collection_name, query_vector, limit): the store refuses a
\* search in a missing collection or with a vector of another size
Search(st, collection_name, dim, limit, remoteOk) ==
    IF ~remoteOk \/ collection_name \notin DOMAIN st
    THEN [raised |-> TRUE, hits |-> <<>>]
    ELSE IF st[collection_name].size # dim
    THEN [raised |-> TRUE, hits |-> <<>>]
    ELSE LET all == ByScore(st[collection_name].points)
         IN  [raised |-> FALSE,
              hits |-> SubSeq(all, 1, IF Len(all) < limit THEN Len(all)
                                      ELSE limit)]

\* res.payload.get('metadata', {}).get('source', default)
SourceOf(res) == res.metadata["source"].v

\* build_context: one "Source: ...\nContent: ..." part per hit, in order
build_context(results) ==
    [i \in 1..Len(results) |->
        [source |-> SourceOf(results[i]), content |-> results[i].content]]

\* mutant: no placeholder, the context is left empty
NoDocumentsContext_Empty == ""

NoDocumentsContext == "No specific documents found."
NoDocumentsInCollectionsContext ==
    "No specific documents found in the requested collections."

ASK_LIMIT == 5
MULTI_LIMIT == 3

EmbedCall == [op |-> "embed", arg |-> <<>>]
SearchCall(collection_name) == [op |-> "search", arg |-> collection_name]
LlmCall == [op |-> "llm", arg |-> <<>>]
ListCall == [op |-> "get_collections", arg |-> <<>>]

\* an HTTPException
HttpError(code, error, trace) ==
    [code |-> code, error |-> error, context |-> <<>>,
     sources_list |-> <<>>, sources_set |-> {}, trace |-> trace]

\* a returned {"answer": ..., "sources": ...}: the answer is what the chat
\* model makes of the context it was given; the sources are a list (the
\* no-hit answers) or the list of a set (the answers with hits)
Answered(context, sources_list, sources_set, trace) ==
    [code |-> 200, error |-> "", context |-> context,
     sources_list |-> sources_list, sources_set |-> sources_set,
     trace |-> trace]

\* process_query (/ask).  emb is the length of the query vector, 0 when the
\* embedding call fails.
process_query(st, collection_name, query, emb, searchOk, llmOk) ==
    IF QueryIsBlank(query) THEN HttpError(400, "QueryEmpty", <<>>)
    ELSE IF emb = 0 THEN HttpError(500, "ServerError", <<EmbedCall>>)
    ELSE LET found == Search(st, collection_name, emb, ASK_LIMIT, searchOk)
             searched == <<EmbedCall, SearchCall(collection_name)>>
             asked == Append(searched, LlmCall)
         IN  IF found.raised THEN HttpError(500, "ServerError", searched)
             ELSE IF ~llmOk THEN HttpError(500, "ServerError", asked)
             ELSE IF found.hits = <<>>
             THEN Answered(NoDocumentsContext, <<>>, {}, asked)
             ELSE Answered(build_context(found.hits), <<>>,
                           {SourceOf(found.hits[i]) : i \in 1..Len(found.hits)},
                           asked)

\* mutant: the loop ends at the first failing search
RECURSIVE SearchAll_StopAtFailure(_, _, _, _, _, _)
SearchAll_StopAtFailure(st, collections, i, emb, searchOk, acc) ==
    IF i > Len(collections) THEN acc
    ELSE LET found == Search(st, collections[i], emb, 3, searchOk[i])
             next == [all_results |-> acc.all_results \o found.hits,
                      trace |-> Append(acc.trace, SearchCall(collections[i]))]
         IN  IF found.raised THEN next
             ELSE SearchAll_StopAtFailure(st, collections, i + 1, emb,
                                          searchOk, next)

\* the loop of cross_collection_query from collection i on: a failing
\* search is skipped
RECURSIVE SearchAll(_, _, _, _, _, _)
SearchAll(st, collections, i, emb, searchOk, acc) ==
    IF i > Len(collections) THEN acc
    ELSE LET found == Search(st, collections[i], emb, MULTI_LIMIT, searchOk[i])
         IN  SearchAll(st, collections, i + 1, emb, searchOk,
                [all_results |-> acc.all_results \o found.hits,
                 trace |-> Append(acc.trace, SearchCall(collections[i]))])

\* cross_collection_query (/ask/multi-collection)
cross_collection_query(st, query, collections, emb, searchOk, llmOk) ==
    IF QueryIsBlank(query) THEN HttpError(400, "QueryEmpty", <<>>)
    ELSE IF collections = <<>> THEN HttpError(400, "CollectionsEmpty", <<>>)
    ELSE IF emb = 0 THEN HttpError(500, "ServerError", <<EmbedCall>>)
    ELSE LET r == SearchAll(st, collections, 1, emb, searchOk,
                            [all_results |-> <<>>, trace |-> <<EmbedCall>>])
             asked == Append(r.trace, LlmCall)
         IN  IF ~llmOk THEN HttpError(500, "ServerError", asked)
             ELSE IF r.all_results = <<>>
             THEN Answered(NoDocumentsInCollectionsContext, collections, {},
                           asked)
             ELSE Answered(build_context(r.all_results), <<>>,
                           {SourceOf(r.all_results[i]) :
                               i \in 1..Len(r.all_results)},
                           asked)

\* mutant: an empty list of collections is handed on to the
\* multi-collection query
query_all_collections_NoEmptyCheck(st, query, listOk, names, emb, searchOk, llmOk) ==
    IF QueryIsBlank(query) THEN HttpError(400, "QueryEmpty", <<>>)
    ELSE IF ~listOk THEN HttpError(500, "CollectionListError", <<ListCall>>)
    ELSE LET r == cross_collection_query(st, query, names, emb, searchOk, llmOk)
         IN  [r EXCEPT !.trace = <<ListCall>> \o @]

\* query_all_collections (/ask/all-collections).  names is the list
\* client.get_collections() gives.
query_all_collections(st, query, listOk, names, emb, searchOk, llmOk) ==
    IF QueryIsBlank(query) THEN HttpError(400, "QueryEmpty", <<>>)
    ELSE IF ~listOk THEN HttpError(500, "CollectionListError", <<ListCall>>)
    ELSE IF names = <<>> THEN HttpError(404, "NoCollections", <<ListCall>>)
    ELSE LET r == cross_collection_query(st, query, names, emb, searchOk, llmOk)
         IN  [r EXCEPT !.trace = <<ListCall>> \o @]

(***************************************************************************)
(* backend/routers/api_routes.py: process_query (/api/query).  results is  *)
(* what query_vector_db returns; upload_file never gets as far as writing  *)
(* an index (its store_embeddings call has one argument too many), so the  *)
(* index directory is empty and query_vector_db returns [].                *)
(***************************************************************************)
backend_process_query(query, results) ==
    IF query = <<>> THEN HttpError(400, "QueryRequired", <<>>)
    ELSE LET searched == <<EmbedCall, SearchCall(<<>>)>>
         IN  IF results # <<>>
             THEN HttpError(500, "KeyError", searched)
             ELSE Answered(<<>>, <<>>, {}, searched)

(***************************************************************************)
(* backend/services: the placeholder vectorizer, the FAISS index           *)
(* directory (store_embeddings, query_vector_db) and the RAG               *)
(* process_query of query_processor.py.  A number 0.1 is written as 1.     *)
(***************************************************************************)
DEFAULT_TOP_K == 5

\* generate_embeddings(data): one fixed vector per element of data; for a
\* str the elements are its characters
generate_embeddings(data) == [i \in 1..Len(data) |-> <<1, 2, 3>>]

\* np.array(rows).shape for a list of equally long rows
ShapeOfRows(rows) ==
    IF rows = <<>> THEN <<0>> ELSE <<Len(rows), Len(rows[1])>>

\* np.array([query_embedding]).shape
QueryArrayShape(query_embedding) ==
    IF query_embedding = <<>> THEN <<1, 0>>
    ELSE <<1, Len(query_embedding), Len(query_embedding[1])>>

\* store_embeddings(text_data, file_name): writes <file_name>.index and
\* <file_name>.pkl; shape[1] of an empty array raises IndexError
store_embeddings(dir, text_data, file_name) ==
    LET embeddings == generate_embeddings(text_data)
        shape == ShapeOfRows(embeddings)
    IN  IF Len(shape) < 2
        THEN [raised |-> TRUE, dir |-> dir]
        ELSE [raised |-> FALSE,
              dir |-> [f \in DOMAIN dir \cup {file_name} |->
                          IF f = file_name
                          THEN [dim |-> shape[2], vectors |-> embeddings,
                                text_data |-> text_data,
                                file_name |-> file_name]
                          ELSE dir[f]]]

\* inner product of two vectors of the same length
RECURSIVE Dot(_, _)
Dot(u, v) ==
    IF u = <<>> THEN 0 ELSE u[1] * v[1] + Dot(Tail(u), Tail(v))

\* the rows of an index by decreasing inner product with x, ties by row
RECURSIVE RankRows(_, _, _)
RankRows(index, x, rows) ==
    IF rows = {} THEN <<>>
    ELSE LET best == CHOOSE i \in rows :
                        \A j \in rows :
                           \/ Dot(index.vectors[i], x) > Dot(index.vectors[j], x)
                           \/ Dot(index.vectors[i], x) = Dot(index.vectors[j], x)
                                /\ i <= j
         IN  <<best>> \o RankRows(index, x, rows \ {best})

\* index.search(x, k) of an IndexFlatIP for the one query row of x: the
\* array must be two-dimensional with rows of the index's dimension;
\* fewer than k rows are padded with index -1
IndexSearch(index, shape, x, k) ==
    IF Len(shape) # 2 THEN [raised |-> TRUE, hits |-> <<>>]
    ELSE IF shape[2] # index.dim THEN [raised |-> TRUE, hits |-> <<>>]
    ELSE LET ranked == RankRows(index, x, 1..Len(index.vectors))
         IN  [raised |-> FALSE,
              hits |-> [n \in 1..k |->
                          IF n <= Len(ranked)
                          THEN [score |-> Dot(index.vectors[ranked[n]], x),
                                idx |-> ranked[n] - 1]
                          ELSE [score |-> 0 - 1, idx |-> 0 - 1]]]

\* the results one index contributes: the hits with idx >= 0
ResultsOf(index, hits) ==
    LET valid == SelectSeq(hits, LAMBDA h : h.idx >= 0)
    IN  [n \in 1..Len(valid) |->
            [text |-> index.text_data[valid[n].idx + 1],
             file_name |-> index.file_name,
             score |-> valid[n].score]]

\* all_results.sort(key=score, reverse=True): stable, by decreasing score
RECURSIVE SortByScore(_)
SortByScore(results) ==
    IF results = <<>> THEN <<>>
    ELSE LET best == CHOOSE i \in 1..Len(results) :
                        /\ \A j \in 1..Len(results) :
                              results[i].score >= results[j].score
                        /\ \A j \in 1..(i - 1) :
                              results[j].score # results[i].score
             rest == [n \in 1..(Len(results) - 1) |->
                         IF n < best THEN results[n] ELSE results[n + 1]]
         IN  <<results[best]>> \o SortByScore(rest)

\* the loop of query_vector_db over the index files; an error of a search
\* leaves the function
RECURSIVE SearchIndexes(_, _, _, _, _, _, _)
SearchIndexes(dir, index_files, i, shape, x, top_k, all_results) ==
    IF i > Len(index_files)
    THEN [raised |-> FALSE, results |-> all_results]
    ELSE LET index == dir[index_files[i]]
             r == IndexSearch(index, shape, x, top_k)
         IN  IF r.raised THEN [raised |-> TRUE, results |-> <<>>]
             ELSE SearchIndexes(dir, index_files, i + 1, shape, x, top_k,
                                all_results \o ResultsOf(index, r.hits))

\* query_vector_db(query_text, top_k); index_files is what os.listdir gives
query_vector_db(dir, query_text, top_k, index_files) ==
    LET query_embedding == generate_embeddings(query_text)
        shape == QueryArrayShape(query_embedding)
        x == IF query_embedding = <<>> THEN <<>> ELSE query_embedding[1]
    IN  IF index_files = <<>>
        THEN [raised |-> FALSE, results |-> <<>>]
        ELSE LET r == SearchIndexes(dir, index_files, 1, shape, x, top_k, <<>>)
             IN  IF r.raised THEN r
                 ELSE LET sorted == SortByScore(r.results)
                      IN  [raised |-> FALSE,
                           results |-> SubSeq(sorted, 1,
                                              IF Len(sorted) < top_k
                                              THEN Len(sorted) ELSE top_k)]

\* "I'm sorry, I encountered an error while processing your query."
APOLOGY == "I'm sorry, I encountered an error while processing your query."

TextsOf(context) == [n \in 1..Len(context) |-> context[n].text]

\* mutant: the chat error leaves process_query
ChatFailed_Raises(context) ==
    [raised |-> TRUE, chatCalled |-> TRUE, response |-> "", context |-> <<>>]

\* the except branch of process_query
ChatFailed(context) ==
    [raised |-> FALSE, chatCalled |-> TRUE, response |-> APOLOGY,
     context |-> TextsOf(context)]

\* services/query_processor.py: process_query(query)
rag_process_query(dir, query, index_files, chatOk) ==
    LET retrieved == query_vector_db(dir, query, DEFAULT_TOP_K, index_files)
    IN  IF retrieved.raised
        THEN [raised |-> TRUE, chatCalled |-> FALSE, response |-> "",
              context |-> <<>>]
        ELSE IF ~chatOk THEN ChatFailed(retrieved.results)
        ELSE [raised |-> FALSE, chatCalled |-> TRUE, response |-> "answer",
              context |-> TextsOf(retrieved.results)]

(***************************************************************************)
(* Query requests against the stores uploads can leave behind.             *)
(***************************************************************************)
CD == <<"c","d">>
ZZ == <<"z","z">>
AB == <<"a","b">>

StoredPoints(name, texts, uid) ==
    PointsToUpsert(name, texts,
                   [i \in 1..Len(texts) |-> ChunkMeta(TempName(uid, EXT_CSV), i - 1)],
                   [i \in 1..Len(texts) |-> Vec(EXPECTED_VECTOR_SIZE, texts[i])],
                   uid)

\* the store after a successful upload of `texts` under collection `name`
Uploaded(st, name, texts, uid) ==
    LET created == PutCollection(st, name, EXPECTED_VECTOR_SIZE)
    IN  IF texts = <<>> THEN created
        ELSE QdrantUpsert(created, name, StoredPoints(name, texts, uid))

QueryStores ==
    {NoCollections,
     ensure_thread_collection(NoCollections),
     Uploaded(NoCollections, AB, <<>>, 1),
     Uploaded(Uploaded(ensure_thread_collection(NoCollections),
                       AB, <<TA, TB>>, 1),
              CD, <<TB>>, 2)}

QueryInit ==
    /\ store \in QueryStores
    /\ tasks = <<>>
    /\ disk = {}
    /\ submitted = 0
    /\ response = NoResponse
    /\ call = NoCall
    /\ calls = 0
    /\ index_dir = NoIndexes

Queries == {<<"q">>, <<" ">>, <<>>}

CollectionArgs == {AB, CD, ZZ, THREAD_COLLECTION}

CollectionLists ==
    {<<>>, <<AB, ZZ, CD>>}
      \cup {<<c>> : c \in {AB, CD, ZZ}}
      \cup {<<c, d>> : c \in {AB, CD, ZZ}, d \in {AB, CD, ZZ}}

\* lengths of the query vector; 0: the embedding call fails
QueryEmbeddings == {0} \cup ModelDimensions

\* the orders in which get_collections can list the collections
Listings(st) ==
    {names \in [1..Cardinality(DOMAIN st) -> DOMAIN st] :
        \A i \in DOMAIN names, j \in DOMAIN names :
            names[i] = names[j] => i = j}

Outcome(endpoint, request, r) ==
    [endpoint |-> endpoint, request |-> request,
     code |-> r.code, error |-> r.error, context |-> r.context,
     sources_list |-> r.sources_list, sources_set |-> r.sources_set,
     trace |-> r.trace]

AskQuery ==
    /\ calls < MaxQueries
    /\ calls' = calls + 1
    /\ \E collection_name \in CollectionArgs, query \in Queries,
          emb \in QueryEmbeddings, searchOk \in BOOLEAN, llmOk \in BOOLEAN :
         response' =
            Outcome("ask",
                    [query |-> query, collections |-> <<collection_name>>,
                     emb |-> emb, searchOk |-> <<searchOk>>, llmOk |-> llmOk],
                    process_query(store, collection_name, query, emb,
                                  searchOk, llmOk))
    /\ UNCHANGED <<index_dir, store, tasks, disk, submitted, call>>

MultiQuery ==
    /\ calls < MaxQueries
    /\ calls' = calls + 1
    /\ \E collections \in CollectionLists, query \in Queries,
          emb \in QueryEmbeddings, llmOk \in BOOLEAN :
         \E searchOk \in [1..Len(collections) -> BOOLEAN] :
           response' =
              Outcome("multi",
                      [query |-> query, collections |-> collections,
                       emb |-> emb, searchOk |-> searchOk, llmOk |-> llmOk],
                      cross_collection_query(store, query, collections, emb,
                                             searchOk, llmOk))
    /\ UNCHANGED <<index_dir, store, tasks, disk, submitted, call>>

AllQuery ==
    /\ calls < MaxQueries
    /\ calls' = calls + 1
    /\ \E query \in Queries, listOk \in BOOLEAN, names \in Listings(store),
          emb \in QueryEmbeddings, llmOk \in BOOLEAN :
         \E searchOk \in [1..Len(names) -> BOOLEAN] :
           response' =
              Outcome("all",
                      [query |-> query, collections |-> names,
                       emb |-> emb, searchOk |-> searchOk, llmOk |-> llmOk,
                       listOk |-> listOk],
                      query_all_collections(store, query, listOk, names, emb,
                                            searchOk, llmOk))
    /\ UNCHANGED <<index_dir, store, tasks, disk, submitted, call>>

BackendQuery ==
    /\ calls < MaxQueries
    /\ calls' = calls + 1
    /\ \E query \in Queries :
         response' =
            Outcome("backend",
                    [query |-> query, collections |-> <<>>, emb |-> 3,
                     searchOk |-> <<>>, llmOk |-> TRUE],
                    backend_process_query(query, <<>>))
    /\ UNCHANGED <<index_dir, store, tasks, disk, submitted, call>>

\* os.listdir(INDEX_DIR), the .index files: in any order
IndexListings(dir) ==
    {names \in [1..Cardinality(DOMAIN dir) -> DOMAIN dir] :
        \A i \in DOMAIN names, j \in DOMAIN names :
            names[i] = names[j] => i = j}

\* a direct call of the backend's RAG process_query
RagQuery ==
    /\ calls < MaxQueries
    /\ calls' = calls + 1
    /\ \E query \in Queries, chatOk \in BOOLEAN,
          index_files \in IndexListings(index_dir) :
         LET r == rag_process_query(index_dir, query, index_files, chatOk)
         IN  call' = [op |-> "process_query", query |-> query,
                      index_files |-> index_files,
                      chatOk |-> chatOk, raised |-> r.raised,
                      chatCalled |-> r.chatCalled, response |-> r.response,
                      context |-> r.context]
    /\ UNCHANGED <<index_dir, store, tasks, disk, submitted, response>>

NextQuery ==
    \/ AskQuery
    \/ MultiQuery
    \/ AllQuery
    \/ BackendQuery
    \/ RagQuery

QuerySpec == QueryInit /\ [][NextQuery]_vars

(***************************************************************************)
(* Properties of the query endpoints.                                      *)
(***************************************************************************)
IsQuery(endpoint) ==
    "endpoint" \in DOMAIN response /\ response.endpoint = endpoint

\* search number i of the last request succeeds: the collection exists, is
\* configured with the length of the query vector, and the store answers
SearchSucceeds(i) ==
    LET c == response.request.collections[i]
    IN  /\ response.request.searchOk[i]
        /\ c \in DOMAIN store
        /\ store[c].size = response.request.emb

\* the context parts the hits of search i give, at most `limit` of them
PartsOf(i, limit) ==
    LET hits == ByScore(store[response.request.collections[i]].points)
        n == IF Len(hits) < limit THEN Len(hits) ELSE limit
    IN  [k \in 1..n |->
            [source |-> hits[k].metadata["source"].v,
             content |-> hits[k].content]]

\* the parts of searches 1..n that succeeded, in the order of the request
RECURSIVE PartsUpTo(_, _)
PartsUpTo(n, limit) ==
    IF n = 0 THEN <<>>
    ELSE PartsUpTo(n - 1, limit)
           \o (IF SearchSucceeds(n) THEN PartsOf(n, limit) ELSE <<>>)

\* the embedding and the chat model answer, and the query is not blank
ServicesAnswer ==
    /\ \E i \in 1..Len(response.request.query) :
          response.request.query[i] # " "
    /\ response.request.emb # 0
    /\ response.request.llmOk

\* C16: a multi-collection query with a non-blank text, at least one named
\* collection and answering embedding and chat services completes with an
\* answer, whichever of its searches fail; every named collection is
\* searched, in order; and the context is made of the hits of the searches
\* that succeeded, in the order the collections were named (the
\* placeholder when there is no hit).
C16_FailedSearchSkipped ==
    (IsQuery("multi") /\ ServicesAnswer /\ response.request.collections # <<>>)
    => LET n == Len(response.request.collections)
           parts == PartsUpTo(n, 3)
       IN  /\ response.code = 200
           /\ [i \in 1..n |-> response.trace[i + 1]]
                = [i \in 1..n |->
                     [op |-> "search", arg |-> response.request.collections[i]]]
           /\ IF parts = <<>>
              THEN response.context
                     = "No specific documents found in the requested collections."
              ELSE response.context = parts

\* C16 witness: the second of three searches failed, and the context holds
\* the hits of the first and of the third collection
C16_Witness ==
    /\ IsQuery("multi") /\ response.code = 200
    /\ Len(response.request.collections) = 3
    /\ SearchSucceeds(1) /\ ~SearchSucceeds(2) /\ SearchSucceeds(3)
    /\ Len(response.context) = 3
    /\ response.context[3].source # response.context[1].source

\* every search of the last request succeeded and found no point
NoHits ==
    \A i \in 1..Len(response.request.collections) :
        /\ SearchSucceeds(i)
        /\ store[response.request.collections[i]].points = {}

\* C17: when every search of a single- or multi-collection query succeeds
\* without a hit (the services answering), the query answers: the chat
\* model is called, with the placeholder as context, and the sources are
\* the empty list (single collection) or the list of the collection names
\* of the request (multi-collection).
C17_NoHitsStillAnswers ==
    ((IsQuery("ask") \/ IsQuery("multi")) /\ ServicesAnswer
     /\ response.request.collections # <<>> /\ NoHits)
    => /\ response.code = 200
       /\ response.trace[Len(response.trace)] = [op |-> "llm", arg |-> <<>>]
       /\ response.sources_set = {}
       /\ IF response.endpoint = "ask"
          THEN /\ response.context = "No specific documents found."
               /\ response.sources_list = <<>>
          ELSE /\ response.context
                    = "No specific documents found in the requested collections."
               /\ response.sources_list = response.request.collections

\* C17 witness: a single-collection query found nothing in an existing
\* collection and was answered
C17_Witness ==
    /\ IsQuery("ask") /\ ServicesAnswer /\ NoHits
    /\ response.request.collections[1] \in DOMAIN store
    /\ response.code = 200
    /\ response.sources_list = <<>>

\* the store answers every call of the last request
StoreAnswers ==
    /\ \A i \in 1..Len(response.request.searchOk) :
          response.request.searchOk[i]
    /\ "listOk" \in DOMAIN response.request => response.request.listOk

\* C18: a non-blank query on the single-collection, multi-collection or
\* all-collections endpoint, naming only collections that do not exist or
\* put to a store without collections, is answered (services and store
\* answering): no error, and as sources the empty list or the list of the
\* collection names.
C18_MissingCollectionAnswers ==
    (/\ IsQuery("ask") \/ IsQuery("multi") \/ IsQuery("all")
     /\ ServicesAnswer /\ StoreAnswers
     /\ response.endpoint # "all" => response.request.collections # <<>>
     /\ \A i \in 1..Len(response.request.collections) :
           response.request.collections[i] \notin DOMAIN store)
    => /\ response.code = 200
       /\ response.sources_set = {}
       /\ response.sources_list \in {<<>>, response.request.collections}

\* the listing of a request is the list of all collections of the store
ListsAllCollections ==
    /\ {response.request.collections[i] :
           i \in 1..Len(response.request.collections)} = DOMAIN store
    /\ Len(response.request.collections) = Cardinality(DOMAIN store)

\* C19: an all-collections query with a non-blank text, the store listing
\* its collections: when there is none, the query fails with the
\* no-collections error (404) and has called neither the embedding model
\* nor a search nor the chat model; when there is one, the answer is that
\* of the multi-collection query for the list of all collections.
C19_AllCollections ==
    (/\ IsQuery("all") /\ response.request.listOk
     /\ \E i \in 1..Len(response.request.query) :
           response.request.query[i] # " ")
    => /\ ListsAllCollections
       /\ IF DOMAIN store = {}
          THEN /\ response.code = 404
               /\ response.error = "NoCollections"
               /\ \A i \in 1..Len(response.trace) :
                     response.trace[i].op \notin {"embed", "search", "llm"}
          ELSE LET r == cross_collection_query(store, response.request.query,
                            response.request.collections,
                            response.request.emb, response.request.searchOk,
                            response.request.llmOk)
               IN  /\ response.code = r.code
                   /\ response.error = r.error
                   /\ response.context = r.context
                   /\ response.sources_list = r.sources_list
                   /\ response.sources_set = r.sources_set
                   /\ response.trace
                        = <<[op |-> "get_collections", arg |-> <<>>]>> \o r.trace

\* C19 witness: the query was refused on an empty store
C19_Witness ==
    /\ IsQuery("all") /\ DOMAIN store = {}
    /\ response.request.emb # 0 /\ response.request.llmOk
    /\ response.code = 404

\* C20: a query whose text is empty or whitespace only is refused with a
\* client error by every query endpoint, before any external call.
C20_BlankQueryRejected ==
    ("endpoint" \in DOMAIN response
     /\ \A i \in 1..Len(response.request.query) :
           response.request.query[i] = " ")
    => /\ response.code = 400
       /\ response.trace = <<>>

(***************************************************************************)
(* File management endpoints of data_extraction.py: delete_file and        *)
(* preview_file, over the store the ingestion paths fill.                  *)
(***************************************************************************)
MaxManage == 1

DELETE_SCROLL_LIMIT == 1000
PREVIEW_SCROLL_LIMIT == 5
PREVIEW_ENOUGH == 5

\* "chat4ba_"
SYSTEM_PREFIX == <<"c","h","a","t","4","b","a","_">>

\* str.startswith
StartsWith(s, prefix) ==
    /\ Len(s) >= Len(prefix)
    /\ SubSeq(s, 1, Len(prefix)) = prefix

\* `collection_name.startswith("chat4ba_")`: a system collection
IsSystemCollection(collection_name) ==
    StartsWith(collection_name, SYSTEM_PREFIX)

\* mutant: every collection is scanned, system collections included
SkipsCollection_Never(collection_name) == FALSE

\* the test of the `continue` in the scan loops
SkipsCollection(collection_name) == IsSystemCollection(collection_name)

\* mutant: any name that starts with the filename matches
CollectionMatches_AnyPrefix(collection_name, filename) ==
    \/ collection_name = filename
    \/ StartsWith(collection_name, filename)

\* `collection_name == filename or collection_name.startswith(f"{filename}_")`
CollectionMatches(collection_name, filename) ==
    \/ collection_name = filename
    \/ StartsWith(collection_name, filename \o <<"_">>)

\* filter_condition: metadata.filename or metadata.source equals filename
MatchesFile(p, filename) ==
    \/ "filename" \in DOMAIN p.metadata
         /\ p.metadata["filename"] = StrVal(filename)
    \/ "source" \in DOMAIN p.metadata
         /\ p.metadata["source"] = StrVal(filename)

\* the points of a scroll page in the order of their ids
RECURSIVE ById(_)
ById(points) ==
    IF points = {} THEN <<>>
    ELSE LET first == CHOOSE p \in points :
                         \A q \in points :
                            \/ p.id[1] < q.id[1]
                            \/ p.id[1] = q.id[1] /\ p.id[2] <= q.id[2]
         IN  <<first>> \o ById(points \ {first})

\* client.scroll(collection_name, filter, limit)[0]: the first `limit`
\* matching points; the store's call can fail
Scroll(st, collection_name, filename, limit, remoteOk) ==
    IF ~remoteOk \/ collection_name \notin DOMAIN st
    THEN [raised |-> TRUE, points |-> <<>>]
    ELSE LET all == ById({p \in st[collection_name].points :
                             MatchesFile(p, filename)})
         IN  [raised |-> FALSE,
              points |-> SubSeq(all, 1, IF Len(all) < limit THEN Len(all)
                                        ELSE limit)]

\* client.delete_collection
DropCollection(st, collection_name) ==
    [c \in DOMAIN st \ {collection_name} |-> st[c]]

\* client.delete(collection_name, points_selector={"points": point_ids})
DeletePoints(st, collection_name, point_ids) ==
    [st EXCEPT ![collection_name].points = {p \in @ : p.id \notin point_ids}]

\* the first loop of delete_file: index of the first matching name, 0: none
RECURSIVE CollectionToDelete(_, _, _)
CollectionToDelete(collection_names, i, filename) ==
    IF i > Len(collection_names) THEN 0
    ELSE IF CollectionMatches(collection_names[i], filename) THEN i
    ELSE CollectionToDelete(collection_names, i + 1, filename)

\* the second loop of delete_file; ops[i] is the store call that fails in
\* collection i ("none", "scroll" or "delete"): the failure is logged and the
\* loop goes on
RECURSIVE DeleteMatchingPoints(_, _, _, _, _, _)
DeleteMatchingPoints(st, collection_names, i, filename, ops, deleted_points) ==
    IF i > Len(collection_names)
    THEN [store |-> st, deleted_points |-> deleted_points]
    ELSE IF SkipsCollection(collection_names[i])
    THEN DeleteMatchingPoints(st, collection_names, i + 1, filename, ops,
                              deleted_points)
    ELSE LET r == Scroll(st, collection_names[i], filename,
                         DELETE_SCROLL_LIMIT, ops[i] # "scroll")
             point_ids == {r.points[k].id : k \in 1..Len(r.points)}
         IN  IF r.raised \/ r.points = <<>> \/ ops[i] = "delete"
             THEN DeleteMatchingPoints(st, collection_names, i + 1, filename,
                                       ops, deleted_points)
             ELSE DeleteMatchingPoints(
                      DeletePoints(st, collection_names[i], point_ids),
                      collection_names, i + 1, filename, ops,
                      deleted_points + Len(r.points))

DeleteResponse(code, success, message, collection, deleted_points, st) ==
    [code |-> code, success |-> success, message |-> message,
     collection |-> collection, deleted_points |-> deleted_points,
     raised |-> FALSE, store |-> st]

\* delete_file(filename): listOk and dropOk are whether get_collections and
\* delete_collection succeed
delete_file(st, filename, collection_names, listOk, dropOk, ops) ==
    IF ~listOk
    THEN DeleteResponse(500, FALSE, "error", <<>>, 0, st)
    ELSE LET k == CollectionToDelete(collection_names, 1, filename)
         IN  IF k # 0 /\ collection_names[k] # <<>>
             THEN IF ~dropOk
                  THEN DeleteResponse(500, FALSE, "error", <<>>, 0, st)
                  ELSE DeleteResponse(200, TRUE, "collection_deleted",
                                      collection_names[k], 0,
                                      DropCollection(st, collection_names[k]))
             ELSE LET r == DeleteMatchingPoints(st, collection_names, 1,
                                                filename, ops, 0)
                  IN  IF r.deleted_points > 0
                      THEN DeleteResponse(200, TRUE, "points_deleted", <<>>,
                                          r.deleted_points, r.store)
                      ELSE DeleteResponse(404, FALSE, "not_found", <<>>, 0,
                                          r.store)

\* the loop of preview_file: a failing scroll leaves the loop and the
\* function's try block
RECURSIVE FoundPoints(_, _, _, _, _, _)
FoundPoints(st, collection_names, i, filename, ops, found_points) ==
    IF i > Len(collection_names)
    THEN [raised |-> FALSE, found_points |-> found_points]
    ELSE IF SkipsCollection(collection_names[i])
    THEN FoundPoints(st, collection_names, i + 1, filename, ops, found_points)
    ELSE LET r == Scroll(st, collection_names[i], filename,
                         PREVIEW_SCROLL_LIMIT, ops[i] # "scroll")
             extended == found_points \o r.points
         IN  IF r.raised
             THEN [raised |-> TRUE, found_points |-> <<>>]
             ELSE IF Len(extended) >= PREVIEW_ENOUGH
             THEN [raised |-> FALSE, found_points |-> extended]
             ELSE FoundPoints(st, collection_names, i + 1, filename, ops,
                              extended)

\* preview_file(filename)
preview_file(st, filename, collection_names, listOk, ops) ==
    IF ~listOk
    THEN [code |-> 500, status |-> "error", preview |-> <<>>]
    ELSE LET r == FoundPoints(st, collection_names, 1, filename, ops, <<>>)
         IN  IF r.raised
             THEN [code |-> 500, status |-> "error", preview |-> <<>>]
             ELSE IF r.found_points = <<>>
             THEN [code |-> 200, status |-> "error", preview |-> <<>>]
             ELSE [code |-> 200, status |-> "success",
                   preview |-> [k \in 1..Len(r.found_points) |->
                                   [content |-> r.found_points[k].content,
                                    metadata |-> r.found_points[k].metadata]]]

(***************************************************************************)
(* Management requests against stores the ingestion paths can leave.       *)
(***************************************************************************)
ABC == <<"a","b","c">>
AB_C == <<"a","b","_","c">>
CHAT4BA == <<"c","h","a","t","4","b","a">>

\* points stored with a `filename` metadata entry (store_texts_in_qdrant
\* keeps the caller's metadata; source defaults to the collection name)
FilePoints(name, texts, filename, size, uid) ==
    {[id |-> <<uid, i - 1>>,
      vector |-> Vec(size, texts[i]),
      content |-> texts[i],
      metadata |-> CleanMeta([k \in {"filename"} |-> StrVal(filename)], name)]
        : i \in 1..Len(texts)}

WithPoints(st, name, size, points) ==
    QdrantUpsert(IF name \in DOMAIN st THEN st
                 ELSE PutCollection(st, name, size),
                 name, points)

ManageStores ==
    {ensure_thread_collection(NoCollections),
     Uploaded(Uploaded(ensure_thread_collection(NoCollections),
                       AB, <<TA, TB>>, 1),
              CD, <<TB>>, 2),
     WithPoints(
       WithPoints(
         WithPoints(
           WithPoints(
             WithPoints(NoCollections, THREAD_COLLECTION, THREAD_VECTOR_SIZE,
                        FilePoints(THREAD_COLLECTION, <<TA>>, F_Ab_csv,
                                   THREAD_VECTOR_SIZE, 1)),
             THREAD_COLLECTION, THREAD_VECTOR_SIZE,
             FilePoints(THREAD_COLLECTION, <<TB>>, F_ab_pdf,
                        THREAD_VECTOR_SIZE, 5)),
           ABC, VECTORIZER_VECTOR_SIZE,
           FilePoints(ABC, <<TA, TB, TA, TB>>, F_Ab_csv,
                      VECTORIZER_VECTOR_SIZE, 2)),
         CD, VECTORIZER_VECTOR_SIZE,
         FilePoints(CD, <<TA, TB>>, F_Ab_csv, VECTORIZER_VECTOR_SIZE, 3)),
       CD, VECTORIZER_VECTOR_SIZE,
       FilePoints(CD, <<TB>>, F_ab_xlsx, VECTORIZER_VECTOR_SIZE, 4)),
     WithPoints(
       WithPoints(
         WithPoints(NoCollections, AB, VECTORIZER_VECTOR_SIZE,
                    FilePoints(AB, <<TA>>, F_Ab_csv, VECTORIZER_VECTOR_SIZE, 1)),
         AB_C, VECTORIZER_VECTOR_SIZE,
         FilePoints(AB_C, <<TA>>, F_Ab_csv, VECTORIZER_VECTOR_SIZE, 2)),
       ABC, VECTORIZER_VECTOR_SIZE,
       FilePoints(ABC, <<TB>>, F_ab_xlsx, VECTORIZER_VECTOR_SIZE, 3))}

ManageInit ==
    /\ store \in ManageStores
    /\ tasks = <<>>
    /\ disk = {}
    /\ submitted = 0
    /\ response = NoResponse
    /\ call = NoCall
    /\ calls = 0
    /\ index_dir = NoIndexes

ManageNames ==
    {AB, <<"a">>, F_Ab_csv, F_ab_pdf, TempName(1, EXT_CSV), CHAT4BA,
     THREAD_COLLECTION, ZZ}

\* the store call that fails during a request, if any: get_collections
\* ("list"), delete_collection ("drop"), or the scroll or the delete of the
\* points of the collection listed at position `at`
Faults(n) ==
    {[op |-> o, at |-> 0] : o \in {"none", "list", "drop"}}
      \cup {[op |-> o, at |-> i] : o \in {"scroll", "delete"}, i \in 1..n}

OpsOf(fault, n) ==
    [i \in 1..n |-> IF fault.at = i THEN fault.op ELSE "none"]

DeleteFile ==
    /\ calls < MaxManage
    /\ calls' = calls + 1
    /\ \E filename \in ManageNames, collection_names \in Listings(store),
          fault \in Faults(Cardinality(DOMAIN store)) :
         LET r == delete_file(store, filename, collection_names,
                              fault.op # "list", fault.op # "drop",
                              OpsOf(fault, Len(collection_names)))
         IN  /\ store' = r.store
             /\ response' =
                  [endpoint |-> "delete",
                   request |-> [filename |-> filename,
                                collection_names |-> collection_names,
                                fault |-> fault],
                   code |-> r.code, success |-> r.success,
                   message |-> r.message, collection |-> r.collection,
                   deleted_points |-> r.deleted_points,
                   raised |-> r.raised]
    /\ UNCHANGED <<index_dir, tasks, disk, submitted, call>>

PreviewFile ==
    /\ calls < MaxManage
    /\ calls' = calls + 1
    /\ \E filename \in ManageNames, collection_names \in Listings(store),
          fault \in {f \in Faults(Cardinality(DOMAIN store)) :
                        f.op \in {"none", "list", "scroll"}} :
         LET r == preview_file(store, filename, collection_names,
                               fault.op # "list",
                               OpsOf(fault, Len(collection_names)))
         IN  response' =
                  [endpoint |-> "preview_file",
                   request |-> [filename |-> filename,
                                collection_names |-> collection_names,
                                fault |-> fault],
                   code |-> r.code, status |-> r.status,
                   preview |-> r.preview]
    /\ UNCHANGED <<index_dir, store, tasks, disk, submitted, call>>

NextManage ==
    \/ DeleteFile
    \/ PreviewFile

ManageSpec == ManageInit /\ [][NextManage]_vars

\* the last request was a delete_file request
IsDelete == "endpoint" \in DOMAIN response /\ response.endpoint = "delete"

\* a step that serves a delete_file request
DeleteStep ==
    /\ calls' # calls
    /\ "endpoint" \in DOMAIN response'
    /\ response'.endpoint = "delete"

\* the store without the points of its non-system collections that match
WithoutFile(st, filename) ==
    [c \in DOMAIN st |->
        IF IsSystemCollection(c) THEN st[c]
        ELSE [st[c] EXCEPT !.points = {p \in @ : ~MatchesFile(p, filename)}]]

\* C21 as stated: delete_file(name), the store answering every call,
\* removes one whole collection whose name is name or starts with name, or,
\* when there is no such collection, exactly the points of the non-system
\* collections whose metadata filename or source is name; nothing else
\* changes.
C21_DeletesPrefixedOrPoints ==
    [][(DeleteStep /\ response'.request.fault.op = "none")
       => LET name == response'.request.filename
              prefixed == {c \in DOMAIN store : StartsWith(c, name)}
          IN  IF prefixed # {}
              THEN \E c \in prefixed : store' = DropCollection(store, c)
              ELSE store' = WithoutFile(store, name)]_vars

\* C21, amended: the collection removed is the first listed one whose name
\* is name or starts with name followed by an underscore; when there is
\* none, exactly the matching points of the non-system collections are
\* removed; a store failure leaves the store as it was or, in the point
\* path, leaves the points of the failing collection; nothing else changes.
C21_DeleteFrame ==
    [][DeleteStep
       => LET req == response'.request
              name == req.filename
              matched == {i \in 1..Len(req.collection_names) :
                             \/ req.collection_names[i] = name
                             \/ StartsWith(req.collection_names[i],
                                           name \o <<"_">>)}
          IN  IF req.fault.op = "list" THEN store' = store
              ELSE IF matched # {}
              THEN LET first == CHOOSE i \in matched :
                                   \A j \in matched : i <= j
                   IN  IF req.fault.op = "drop" THEN store' = store
                       ELSE /\ store' = DropCollection(
                                            store, req.collection_names[first])
                            /\ response'.collection
                                 = req.collection_names[first]
              ELSE /\ DOMAIN store' = DOMAIN store
                   /\ \A c \in DOMAIN store :
                        LET i == CHOOSE k \in 1..Len(req.collection_names) :
                                    req.collection_names[k] = c
                        IN  IF req.fault.at = i
                            THEN store'[c] = store[c]
                            ELSE store'[c] = WithoutFile(store, name)[c]]_vars

\* C21 witness: points of a file were deleted, and a point of another file
\* is still stored in the same collection
C21_Witness ==
    /\ IsDelete
    /\ response.message = "points_deleted"
    /\ \E c \in DOMAIN store :
         /\ ~IsSystemCollection(c)
         /\ store[c].points # {}
         /\ \E i \in 1..Len(response.request.collection_names) :
               response.request.collection_names[i] = c

\* the metadata of point p names the file, under `filename` or `source`
NamesFile(p, name) ==
    \E k \in {"filename", "source"} \cap DOMAIN p.metadata :
        p.metadata[k].v = name

\* no collection of the store st is matched by name and no point of its
\* non-system collections names it
MatchesNothing(st, name) ==
    /\ \A c \in DOMAIN st :
          /\ c # name
          /\ ~StartsWith(c, name \o <<"_">>)
    /\ \A c \in DOMAIN st :
          ~StartsWith(c, SYSTEM_PREFIX)
             => \A p \in st[c].points : ~NamesFile(p, name)

\* C22: delete_file for a name that matches no collection and no stored
\* point of a non-system collection leaves the store unchanged and answers
\* success=false: not found (404), or the server error (500) when the
\* listing of the collections failed; no delete_file request ends in an
\* unhandled error, whichever store call fails.
C22_NotFoundLeavesStore ==
    [][DeleteStep
       => /\ ~response'.raised
          /\ response'.code \in {200, 404, 500}
          /\ MatchesNothing(store, response'.request.filename)
               => /\ store' = store
                  /\ ~response'.success
                  /\ response'.code
                       = (IF response'.request.fault.op = "list" THEN 500
                          ELSE 404)]_vars

\* C22 witness: not found, while the scan of a collection failed and the
\* system collection holds a point that names the file
C22_Witness ==
    /\ IsDelete
    /\ response.code = 404
    /\ response.request.fault.op = "scroll"
    /\ MatchesNothing(store, response.request.filename)
    /\ THREAD_COLLECTION \in DOMAIN store
    /\ \E p \in store[THREAD_COLLECTION].points :
          NamesFile(p, response.request.filename)

\* C23: the preview endpoint returns at most 5 stored chunks for a
\* filename, whatever the collections hold.
C23_PreviewAtMostFive ==
    ("endpoint" \in DOMAIN response /\ response.endpoint = "preview_file")
    => Len(response.preview) <= 5

\* C28: no delete_file request, whatever the filename, deletes a system
\* collection (name starting with "chat4ba_", the chat-thread collection
\* among them) or removes a point from it.
C28_SystemCollectionsKept ==
    [][DeleteStep
       => \A c \in DOMAIN store :
             StartsWith(c, SYSTEM_PREFIX)
                => c \in DOMAIN store' /\ store'[c] = store[c]]_vars

\* C29: after delete_file(name) answered with deleted points, and after it
\* answered not-found, no point of a non-system collection names the file.
C29_NoMatchingPointLeft ==
    (IsDelete /\ response.message \in {"points_deleted", "not_found"})
    => \A c \in DOMAIN store :
          ~StartsWith(c, SYSTEM_PREFIX)
             => \A p \in store[c].points :
                   ~NamesFile(p, response.request.filename)

(***************************************************************************)
(* Direct calls of the backend's index functions.                          *)
(***************************************************************************)
IndexNames == {<<"f">>, <<"g">>}

TextDatas == {<<>>, <<"a">>, <<"a", "b">>, <<"a", "b", "c">>}

TopKs == {1, 2, DEFAULT_TOP_K}

StoreEmbeddingsCall ==
    /\ calls < MaxCalls
    /\ calls' = calls + 1
    /\ \E text_data \in TextDatas, file_name \in IndexNames :
         LET r == store_embeddings(index_dir, text_data, file_name)
         IN  /\ index_dir' = r.dir
             /\ call' = [op |-> "store_embeddings", text_data |-> text_data,
                         file_name |-> file_name, raised |-> r.raised]
    /\ UNCHANGED <<store, tasks, disk, submitted, response>>

QueryVectorDbCall ==
    /\ calls < MaxCalls
    /\ calls' = calls + 1
    /\ \E query_text \in Queries, top_k \in TopKs,
          index_files \in IndexListings(index_dir) :
         LET r == query_vector_db(index_dir, query_text, top_k, index_files)
         IN  call' = [op |-> "query_vector_db", query_text |-> query_text,
                      top_k |-> top_k, index_files |-> index_files,
                      raised |-> r.raised, results |-> r.results]
    /\ UNCHANGED <<index_dir, store, tasks, disk, submitted, response>>

NextBackend ==
    \/ StoreEmbeddingsCall
    \/ QueryVectorDbCall

BackendSpec == Init /\ [][NextBackend]_vars

\* C24: when the hosted chat call fails, the backend's process_query
\* returns normally, with the fixed apology as the answer and the texts it
\* retrieved as the context; an engine query endpoint (single, multi, all)
\* whose chat call fails answers with the server error, never with 200.
C24_ChatFailure ==
    /\ (call.op = "process_query" /\ call.chatCalled /\ ~call.chatOk)
          => /\ ~call.raised
             /\ call.response
                  = "I'm sorry, I encountered an error while processing your query."
             /\ LET retrieved == query_vector_db(index_dir, call.query, 5,
                                                 call.index_files).results
                IN  call.context
                      = [n \in 1..Len(retrieved) |-> retrieved[n].text]
    /\ ((IsQuery("ask") \/ IsQuery("multi") \/ IsQuery("all"))
        /\ ~response.request.llmOk
        /\ \E i \in 1..Len(response.trace) : response.trace[i].op = "llm")
          => /\ response.code = 500
             /\ response.error = "ServerError"

\* C24 witness: the backend's chat call failed and the apology came back
C24_Witness ==
    /\ call.op = "process_query"
    /\ call.chatCalled /\ ~call.chatOk
    /\ call.query = <<"q">>
    /\ ~call.raised

\* number of rows of all stored indexes
RECURSIVE TotalRows(_, _)
TotalRows(dir, names) ==
    IF names = {} THEN 0
    ELSE LET f == CHOOSE n \in names : TRUE
         IN  Len(dir[f].vectors) + TotalRows(dir, names \ {f})

\* C26: query_vector_db returns at most top_k results in the order of
\* non-increasing score, as many as there are hits up to top_k, each scored
\* by the inner product with a stored row; with no stored index it returns
\* the empty list.
C26_TopKResults ==
    call.op = "query_vector_db"
    => /\ ~call.raised
       /\ Len(call.results) <= call.top_k
       /\ \A n \in 1..(Len(call.results) - 1) :
             call.results[n].score >= call.results[n + 1].score
       /\ LET total == TotalRows(index_dir, DOMAIN index_dir)
          IN  Len(call.results)
                = (IF total < call.top_k THEN total ELSE call.top_k)
       /\ \A n \in 1..Len(call.results) :
             /\ call.results[n].file_name \in DOMAIN index_dir
             /\ call.results[n].score = 14

\* C25: a store_texts_in_qdrant call for a collection that already exists
\* leaves its configured size and every point it held as they were, and a
\* successful call adds one new point per valid text, so that storing the
\* same N valid texts twice leaves 2N points.
C25_SkipPolicyKeepsPoints ==
    (call.op = "store_texts_in_qdrant" /\ call.name \in DOMAIN call.pre)
    => /\ DOMAIN store = DOMAIN call.pre
       /\ \A c \in DOMAIN store \ {call.name} : store[c] = call.pre[c]
       /\ store[call.name].size = call.pre[call.name].size
       /\ call.pre[call.name].points \subseteq store[call.name].points
       /\ Cardinality(store[call.name].points)
            = Cardinality(call.pre[call.name].points)
                + (IF call.raised THEN 0 ELSE call.ret)

\* C25 witness: the two texts a first call stored were stored again, and
\* the collection holds four points
C25_Witness ==
    /\ call.op = "store_texts_in_qdrant"
    /\ ~call.raised
    /\ call.name \in DOMAIN call.pre
    /\ call.ret = 2
    /\ Cardinality(call.pre[call.name].points) = 2
    /\ {p.content : p \in call.pre[call.name].points}
         = {p.content : p \in call.batch}
    /\ Cardinality(store[call.name].points) = 4

\* C27: when process_and_store fails, every collection that existed before
\* still holds the points it held: a failed re-upload destroys nothing.
C27_FailedUploadKeepsPoints ==
    [][\A t \in 1..Len(tasks) :
          (tasks[t].pc # "failed" /\ tasks'[t].pc = "failed")
            => \A c \in DOMAIN store :
                  /\ c \in DOMAIN store'
                  /\ store[c].points \subseteq store'[c].points]_vars

\* C30: every stored point carries the vector computed from its own text,
\* and the points a successful process_and_store writes are its chunks,
\* each with its text, its metadata and the vector of that text; a call
\* whose embedding step returned another number of vectors than texts
\* fails with the count error before setup_collection and before any
\* upsert, leaving the store as it was (so the length check of
\* upsert_vectors never fails after a collection was set up).
C30_TextPairedWithItsVector ==
    /\ [](/\ \A p \in AllPoints(store) : p.vector.of = p.content
          /\ \A t \in 1..Len(tasks) :
                /\ tasks[t].err = "RuntimeError"
                     => ~tasks[t].setupCalled /\ ~tasks[t].sent
                /\ tasks[t].setupCalled
                     => tasks[t].err \in {"", "StoreError"})
    /\ [][\A t \in 1..Len(tasks) :
            /\ (tasks[t].pc = "embedding" /\ tasks'[t].err = "RuntimeError")
                 => store' = store
            /\ (tasks[t].pc = "embedding" /\ tasks'[t].pc = "done")
                 => LET chunks == tasks[t].chunks
                        name == tasks'[t].result.collection_name
                    IN  /\ Cardinality(store'[name].points)
                             = tasks'[t].result.points_stored
                        /\ \A p \in store'[name].points :
                             \E i \in 1..Len(chunks) :
                                /\ p.content = chunks[i].page_content
                                /\ p.vector.of = chunks[i].page_content
                                /\ p.metadata["chunk_index"].v
                                     = DecimalDigits(
                                         chunks[i].metadata["chunk_index"].n)
                                /\ p.metadata["source"]
                                     = chunks[i].metadata["source"]]_vars

\* C30 witness: the embedding call of a task returned too few vectors and
\* the task failed with the count error, with no collection set up
C30_Witness ==
    \E t \in 1..Len(tasks) :
        /\ tasks[t].pc = "failed"
        /\ tasks[t].embedCalled
        /\ tasks[t].err = "RuntimeError"
        /\ ~tasks[t].setupCalled

====
